---------------------------- MODULE Spec2Model ----------------------------
(***************************************************************************)
(* Model of the Simplex file manager: the soft-delete (trash) subsystem    *)
(* of internal/fileops/softdelete.go and the archive engine of             *)
(* internal/fileops (ArchiveFiles, ExtractArchive, ListArchiveContents),   *)
(* the command loop of internal/app and its logger, over a small model of  *)
(* the file system and of Go's path/filepath and strings functions.        *)
(*                                                                         *)
(* A Go string is a sequence of symbols.  A symbol is a one-character      *)
(* string ("/", ".", "_", "a", "1", "\n") or a word standing for a fixed   *)
(* run of letters that the functions below never look inside ("home",      *)
(* "Trash", "Path=", "evil").                                              *)
(***************************************************************************)
EXTENDS Integers, Sequences, FiniteSets, TLC

VARIABLES
    platform,   \* runtime.GOOS of the build: "linux", "darwin" or "windows"
    fs,         \* the file system: absolute path -> node (directory or file)
    nextId,     \* next fresh file content (contents identify a file's bytes)
    last,       \* the last call: operation, arguments, returned error
    steps,      \* number of calls made so far
    app,        \* the App and its Logger: loop position, isRunning, entries
    procs       \* the invocations that run MoveToTrash concurrently

vars == <<platform, fs, nextId, last, steps, app, procs>>

\* LogLevel: DEBUG, INFO, WARNING, ERROR (iota)
DEBUG == 0
INFO == 1
WARNING == 2
ERROR == 3

\* the App that NewApp returns, with the Logger of NewLogger: Start has not
\* been called, no line is read, the journal is empty.  accepted is the
\* history of the entries that Log has appended.
AppNew ==
    [pc |-> "new", isRunning |-> FALSE, input |-> <<>>, Level |-> INFO,
     entries |-> <<>>, accepted |-> <<>>]

\* no invocation runs MoveToTrash step by step
NoProcs == <<>>

-----------------------------------------------------------------------------
(* Go strings *)

Sep == "/"

\* strings.HasPrefix(s, prefix)
HasPrefix(s, prefix) ==
    /\ Len(prefix) <= Len(s)
    /\ SubSeq(s, 1, Len(prefix)) = prefix

\* strings.HasSuffix(s, suffix)
HasSuffix(s, suffix) ==
    /\ Len(suffix) <= Len(s)
    /\ SubSeq(s, Len(s) - Len(suffix) + 1, Len(s)) = suffix

\* strings.TrimPrefix(s, prefix)
TrimPrefix(s, prefix) ==
    IF HasPrefix(s, prefix) THEN SubSeq(s, Len(prefix) + 1, Len(s)) ELSE s

\* strings.Contains(s, substr)
Contains(s, substr) ==
    \E i \in 1..(Len(s) - Len(substr) + 1) :
        SubSeq(s, i, i + Len(substr) - 1) = substr

\* strings.Split(s, sep) for a one-symbol separator: the pieces between
\* the separators, empty pieces kept.
RECURSIVE SplitAcc(_, _, _, _)
SplitAcc(s, sep, cur, acc) ==
    IF s = <<>> THEN Append(acc, cur)
    ELSE IF Head(s) = sep THEN SplitAcc(Tail(s), sep, <<>>, Append(acc, cur))
    ELSE SplitAcc(Tail(s), sep, Append(cur, Head(s)), acc)

Split(s, sep) == SplitAcc(s, sep, <<>>, <<>>)

\* strings.ToLower on the symbols used here: the words of the modelled
\* file names and format arguments that have upper-case letters
LowerSym(c) ==
    CASE c = "ZIP" -> "zip"
      [] c = "Tar" -> "tar"
      [] c = "GZ" -> "gz"
      [] OTHER -> c

ToLower(s) == [i \in 1..Len(s) |-> LowerSym(s[i])]

\* fmt.Sprintf("%d", n) for n >= 0: the decimal digits of n.
Digit(d) == ToString(d)

RECURSIVE Itoa(_)
Itoa(n) == IF n < 10 THEN <<Digit(n)>> ELSE Append(Itoa(n \div 10), Digit(n % 10))

-----------------------------------------------------------------------------
(* path/filepath on a Unix host *)

\* The path joined from segments, with a leading separator when rooted.
RECURSIVE JoinSegs(_)
JoinSegs(segs) ==
    IF segs = <<>> THEN <<>>
    ELSE IF Len(segs) = 1 THEN segs[1]
    ELSE segs[1] \o <<Sep>> \o JoinSegs(Tail(segs))

\* The lexical processing of Clean: drop empty and "." segments, resolve
\* "..".
RECURSIVE CleanSegs(_, _, _)
CleanSegs(segs, rooted, out) ==
    IF segs = <<>> THEN out
    ELSE LET s == Head(segs) IN
         IF s = <<>> \/ s = <<".">> THEN CleanSegs(Tail(segs), rooted, out)
         ELSE IF s = <<".", ".">> THEN
              IF out # <<>> /\ out[Len(out)] # <<".", ".">>
                  THEN CleanSegs(Tail(segs), rooted, SubSeq(out, 1, Len(out) - 1))
              ELSE IF rooted THEN CleanSegs(Tail(segs), rooted, out)
              ELSE CleanSegs(Tail(segs), rooted, Append(out, s))
         ELSE CleanSegs(Tail(segs), rooted, Append(out, s))

\* filepath.Clean(path)
Clean(path) ==
    IF path = <<>> THEN <<".">>
    ELSE LET rooted == Head(path) = Sep
             body == JoinSegs(CleanSegs(Split(path, Sep), rooted, <<>>))
         IN  IF rooted THEN <<Sep>> \o body
             ELSE IF body = <<>> THEN <<".">> ELSE body

\* filepath.Join(a, b): empty elements are ignored, the result is cleaned.
Join(a, b) ==
    IF a = <<>> /\ b = <<>> THEN <<>>
    ELSE IF a = <<>> THEN Clean(b)
    ELSE IF b = <<>> THEN Clean(a)
    ELSE Clean(a \o <<Sep>> \o b)

\* filepath.IsAbs(path)
IsAbs(path) == HasPrefix(path, <<Sep>>)

\* path with its trailing separators removed
RECURSIVE StripTrailingSep(_)
StripTrailingSep(path) ==
    IF path # <<>> /\ path[Len(path)] = Sep
        THEN StripTrailingSep(SubSeq(path, 1, Len(path) - 1))
        ELSE path

\* index of the last separator of path at or before i, 0 when there is none
RECURSIVE LastSepFrom(_, _)
LastSepFrom(path, i) ==
    IF i = 0 THEN 0
    ELSE IF path[i] = Sep THEN i
    ELSE LastSepFrom(path, i - 1)

LastSep(path) == LastSepFrom(path, Len(path))

\* filepath.Base(path)
Base(path) ==
    IF path = <<>> THEN <<".">>
    ELSE LET p == StripTrailingSep(path) IN
         IF p = <<>> THEN <<Sep>>
         ELSE SubSeq(p, LastSep(p) + 1, Len(p))

\* filepath.Dir(path)
Dir(path) == Clean(SubSeq(path, 1, LastSep(path)))

\* filepath.Ext(path): from the last dot of the last element, or empty.
Ext(path) ==
    LET from == LastSep(path) + 1
        dots == {i \in from..Len(path) : path[i] = "."}
    IN  IF dots = {} THEN <<>>
        ELSE SubSeq(path, CHOOSE i \in dots : \A j \in dots : j <= i, Len(path))

-----------------------------------------------------------------------------
(* The file system: a function from cleaned absolute paths to nodes.  The  *)
(* root directory always exists.  Every operation returns the resulting    *)
(* file system and whether the system call succeeded.                      *)

Root == <<Sep>>

DirNode == [kind |-> "dir"]
FileNode(data) == [kind |-> "file", data |-> data]

Exists(f, p) == p \in DOMAIN f
IsDirAt(f, p) == Exists(f, p) /\ f[p].kind = "dir"
IsFileAt(f, p) == Exists(f, p) /\ f[p].kind = "file"

\* p is d or lies below d
UnderOrAt(p, d) ==
    \/ p = d
    \/ IF d = Root THEN IsAbs(p) ELSE HasPrefix(p, d \o <<Sep>>)

\* the directory that holds the entry at the cleaned absolute path p
Parent(p) == IF LastSep(p) <= 1 THEN Root ELSE SubSeq(p, 1, LastSep(p) - 1)

\* the name of the entry at the cleaned absolute path p
EntryName(p) == SubSeq(p, LastSep(p) + 1, Len(p))

\* p and the directories above it, the root excluded
Ancestors(p) ==
    {SubSeq(p, 1, i) : i \in {j \in 2..Len(p) : j = Len(p) \/ p[j + 1] = Sep}}

\* os.MkdirAll(p): creates p and the missing directories above it; fails
\* when p or a path above it is a file.
MkdirAll(f, p) ==
    IF \E a \in Ancestors(p) : IsFileAt(f, a)
        THEN [ok |-> FALSE, fs |-> f]
        ELSE [ok |-> TRUE,
              fs |-> [q \in DOMAIN f \cup Ancestors(p) |->
                         IF q \in DOMAIN f THEN f[q] ELSE DirNode]]

\* os.Create / os.WriteFile / os.OpenFile(O_WRONLY|O_CREATE|O_TRUNC): the
\* file is created or truncated; fails when the parent is no directory or
\* p is a directory.
WriteFile(f, p, data) ==
    IF ~IsDirAt(f, Parent(p)) \/ IsDirAt(f, p) \/ p = Root
        THEN [ok |-> FALSE, fs |-> f]
        ELSE [ok |-> TRUE,
              fs |-> [q \in DOMAIN f \cup {p} |-> IF q = p THEN FileNode(data) ELSE f[q]]]

\* os.Rename(old, new) of a file or a directory tree: an existing file at
\* new is replaced.
Rename(f, old, new) ==
    IF \/ ~Exists(f, old) \/ old = Root
       \/ ~IsDirAt(f, Parent(new))
       \/ (IsFileAt(f, old) /\ IsDirAt(f, new))
       \/ (IsDirAt(f, old) /\ Exists(f, new))
       \/ UnderOrAt(new, old)
        THEN [ok |-> FALSE, fs |-> f]
        ELSE LET moved == {q \in DOMAIN f : UnderOrAt(q, old)}
                 target(q) == new \o SubSeq(q, Len(old) + 1, Len(q))
                 kept == (DOMAIN f \ moved) \ {new}
             IN  [ok |-> TRUE,
                  fs |-> [q \in kept \cup {target(m) : m \in moved} |->
                             IF q \in kept THEN f[q]
                             ELSE f[CHOOSE m \in moved : target(m) = q]]]

\* os.Remove(p): a file or an empty directory
Remove(f, p) ==
    IF ~Exists(f, p) \/ p = Root \/ (\E q \in DOMAIN f : q # p /\ UnderOrAt(q, p))
        THEN [ok |-> FALSE, fs |-> f]
        ELSE [ok |-> TRUE, fs |-> [q \in DOMAIN f \ {p} |-> f[q]]]

\* os.RemoveAll(p): p and everything below it; no error when p is absent
RemoveAll(f, p) ==
    [ok |-> TRUE, fs |-> [q \in {r \in DOMAIN f : ~UnderOrAt(r, p)} |-> f[q]]]

\* os.ReadDir(p): the names of the entries of directory p
ReadDir(f, p) ==
    IF ~IsDirAt(f, p) THEN [ok |-> FALSE, names |-> {}]
    ELSE [ok |-> TRUE,
          names |-> {EntryName(q) : q \in {r \in DOMAIN f : r # Root /\ Parent(r) = p}}]

-----------------------------------------------------------------------------
(* Soft delete: internal/fileops/softdelete.go.  A call takes the file     *)
(* system and returns it changed, with the error it returns ("nil" for     *)
(* success).  fault names the system call that the environment lets fail   *)
(* in this call ("none": no call fails for an outside reason).             *)

\* os.UserHomeDir() and, on Windows, the value of USERPROFILE
Home == <<Sep, "home">>

\* filepath.Join(home, ".local", "share", "Trash", "files")
LinuxTrashDir ==
    Join(Join(Join(Join(Home, <<".", "local">>), <<"share">>), <<"Trash">>), <<"files">>)

\* filepath.Join(home, ".local", "share", "Trash", "info")
LinuxInfoDir ==
    Join(Join(Join(Join(Home, <<".", "local">>), <<"share">>), <<"Trash">>), <<"info">>)

\* filepath.Join(home, ".Trash")
MacTrashDir == Join(Home, <<".", "Trash">>)

\* filepath.Join(userProfile, "Recycle.Bin")
WindowsTrashDir == Join(Home, <<"Recycle", ".", "Bin">>)

\* the trash root of the variant GetSoftDeleter selects
TrashDir(os) ==
    CASE os = "linux" -> LinuxTrashDir
      [] os = "darwin" -> MacTrashDir
      [] os = "windows" -> WindowsTrashDir

TrashInfoExt == <<".", "trashinfo">>

\* fmt.Sprintf("[Trash Info]\nPath=%s\nDeletionDate=%s\n", path, now)
TrashInfo(path) ==
    <<"[Trash Info]", "\n", "Path=">> \o path \o <<"\n", "DeletionDate=", "now", "\n">>

\* the working directory of the process, os.Getwd
ProcessDir == <<Sep, "home", Sep, "work">>

\* the file a system call operates on for a path name: a relative name is
\* taken from the working directory of the process
Resolve(path) == IF IsAbs(path) THEN Clean(path) ELSE Join(ProcessDir, path)

\* fmt.Sprintf("%s_%d", baseName, suffix)
Suffixed(baseName, suffix) == baseName \o <<"_">> \o Itoa(suffix)

\* mutant of ProbeName: the candidate name is taken without the os.Stat
\* check
ProbeNameNoStat(f, trashDir, baseName, fileName, suffix) == fileName

\* mutant of ProbeName: the suffix is appended before the first check
RECURSIVE ProbeNameSuffixFirst(_, _, _, _, _)
ProbeNameSuffixFirst(f, trashDir, baseName, fileName, suffix) ==
    IF fileName # baseName /\ ~Exists(f, Join(trashDir, fileName)) THEN fileName
    ELSE ProbeNameSuffixFirst(f, trashDir, baseName, Suffixed(baseName, suffix), suffix + 1)

\* the probing loop of MoveToTrash: the first of baseName, baseName_1,
\* baseName_2, ... that os.Stat reports as not existing in trashDir
RECURSIVE ProbeName(_, _, _, _, _)
ProbeName(f, trashDir, baseName, fileName, suffix) ==
    IF ~Exists(f, Join(trashDir, fileName)) THEN fileName
    ELSE ProbeName(f, trashDir, baseName, Suffixed(baseName, suffix), suffix + 1)

Result(f, err, name) == [fs |-> f, err |-> err, name |-> name]

\* mutant of LinuxMoveToTrash: the record is named after the base name of
\* the path, not after the name the probing chose
LinuxMoveRecordByBase(f, path, fault) ==
    LET m1 == MkdirAll(f, LinuxTrashDir) IN
    IF ~m1.ok \/ fault = "mkdir" THEN Result(f, "mkdir", <<>>)
    ELSE
    LET m2 == MkdirAll(m1.fs, LinuxInfoDir) IN
    IF ~m2.ok THEN Result(m1.fs, "mkdir", <<>>)
    ELSE
    LET fileName == ProbeName(m2.fs, LinuxTrashDir, Base(path), Base(path), 1)
        dest == Join(LinuxTrashDir, fileName)
        r == Rename(m2.fs, Resolve(path), dest)
    IN
    IF ~r.ok \/ fault = "rename" THEN Result(m2.fs, "rename", fileName)
    ELSE
    LET infoPath == Join(LinuxInfoDir, Base(path) \o TrashInfoExt)
        w == WriteFile(r.fs, infoPath, TrashInfo(path))
    IN
    IF ~w.ok \/ fault = "write" THEN Result(r.fs, "write", fileName)
    ELSE Result(w.fs, "nil", fileName)

\* linuxSoftDeleter.MoveToTrash
LinuxMoveToTrash(f, path, fault) ==
    LET m1 == MkdirAll(f, LinuxTrashDir) IN
    IF ~m1.ok \/ fault = "mkdir" THEN Result(f, "mkdir", <<>>)
    ELSE
    LET m2 == MkdirAll(m1.fs, LinuxInfoDir) IN
    IF ~m2.ok THEN Result(m1.fs, "mkdir", <<>>)
    ELSE
    LET fileName == ProbeName(m2.fs, LinuxTrashDir, Base(path), Base(path), 1)
        dest == Join(LinuxTrashDir, fileName)
        r == Rename(m2.fs, Resolve(path), dest)
    IN
    IF ~r.ok \/ fault = "rename" THEN Result(m2.fs, "rename", fileName)
    ELSE
    LET infoPath == Join(LinuxInfoDir, fileName \o TrashInfoExt)
        w == WriteFile(r.fs, infoPath, TrashInfo(path))
    IN
    IF ~w.ok \/ fault = "write" THEN Result(r.fs, "write", fileName)
    ELSE Result(w.fs, "nil", fileName)

\* macSoftDeleter.MoveToTrash and windowsSoftDeleter.MoveToTrash, which
\* differ in the trash root only
PlainMoveToTrash(f, trashDir, path, fault) ==
    LET m1 == MkdirAll(f, trashDir) IN
    IF ~m1.ok \/ fault = "mkdir" THEN Result(f, "mkdir", <<>>)
    ELSE
    LET fileName == ProbeName(m1.fs, trashDir, Base(path), Base(path), 1)
        dest == Join(trashDir, fileName)
        r == Rename(m1.fs, Resolve(path), dest)
    IN
    IF ~r.ok \/ fault = "rename" THEN Result(m1.fs, "rename", fileName)
    ELSE Result(r.fs, "nil", fileName)

\* SoftDeleter.MoveToTrash of the platform's variant
MoveToTrash(os, f, path, fault) ==
    IF os = "linux" THEN LinuxMoveToTrash(f, path, fault)
    ELSE PlainMoveToTrash(f, TrashDir(os), path, fault)

\* the loop of RestoreFromTrash over the lines of the record: the value
\* of the first line that starts with "Path=", empty when there is none
RECURSIVE OrigPath(_)
OrigPath(lines) ==
    IF lines = <<>> THEN <<>>
    ELSE IF HasPrefix(Head(lines), <<"Path=">>) THEN TrimPrefix(Head(lines), <<"Path=">>)
    ELSE OrigPath(Tail(lines))

\* mutant of LinuxRestoreFromTrash: without a record the entry is put back
\* into the home directory under its trash name
LinuxRestoreNoRecord(f, fileName, fault) ==
    LET infoPath == Join(LinuxInfoDir, fileName \o TrashInfoExt)
        filePath == Join(LinuxTrashDir, fileName)
    IN
    IF ~IsFileAt(f, infoPath) THEN
        LET r == Rename(f, filePath, Join(Home, fileName)) IN
        Result(r.fs, "nil", fileName)
    ELSE
    LET origPath == OrigPath(Split(f[infoPath].data, "\n")) IN
    IF origPath = <<>> THEN Result(f, "nopath", fileName)
    ELSE
    LET r == Rename(f, filePath, Resolve(origPath)) IN
    IF ~r.ok \/ fault = "rename" THEN Result(f, "rename", fileName)
    ELSE
    LET d == Remove(r.fs, infoPath) IN
    IF ~d.ok \/ fault = "remove" THEN Result(r.fs, "remove", fileName)
    ELSE Result(d.fs, "nil", fileName)

\* mutant of LinuxRestoreFromTrash: when the entry cannot be renamed back
\* the record is deleted
LinuxRestoreDropsRecord(f, fileName, fault) ==
    LET infoPath == Join(LinuxInfoDir, fileName \o TrashInfoExt) IN
    IF ~IsFileAt(f, infoPath) \/ fault = "read" THEN Result(f, "read", fileName)
    ELSE
    LET origPath == OrigPath(Split(f[infoPath].data, "\n")) IN
    IF origPath = <<>> THEN Result(f, "nopath", fileName)
    ELSE
    LET filePath == Join(LinuxTrashDir, fileName)
        r == Rename(f, filePath, Resolve(origPath))
    IN
    IF ~r.ok \/ fault = "rename" THEN Result(Remove(f, infoPath).fs, "rename", fileName)
    ELSE
    LET d == Remove(r.fs, infoPath) IN
    IF ~d.ok \/ fault = "remove" THEN Result(r.fs, "remove", fileName)
    ELSE Result(d.fs, "nil", fileName)

\* linuxSoftDeleter.RestoreFromTrash
LinuxRestoreFromTrash(f, fileName, fault) ==
    LET infoPath == Join(LinuxInfoDir, fileName \o TrashInfoExt) IN
    IF ~IsFileAt(f, infoPath) \/ fault = "read" THEN Result(f, "read", fileName)
    ELSE
    LET origPath == OrigPath(Split(f[infoPath].data, "\n")) IN
    IF origPath = <<>> THEN Result(f, "nopath", fileName)
    ELSE
    LET filePath == Join(LinuxTrashDir, fileName)
        r == Rename(f, filePath, Resolve(origPath))
    IN
    IF ~r.ok \/ fault = "rename" THEN Result(f, "rename", fileName)
    ELSE
    LET d == Remove(r.fs, infoPath) IN
    IF ~d.ok \/ fault = "remove" THEN Result(r.fs, "remove", fileName)
    ELSE Result(d.fs, "nil", fileName)

\* mutant of RestoreFromTrash: macOS and Windows report success
RestoreFromTrashSilent(os, f, fileName, fault) ==
    IF os = "linux" THEN LinuxRestoreFromTrash(f, fileName, fault)
    ELSE Result(f, "nil", fileName)

\* SoftDeleter.RestoreFromTrash: not supported on macOS and Windows
RestoreFromTrash(os, f, fileName, fault) ==
    IF os = "linux" THEN LinuxRestoreFromTrash(f, fileName, fault)
    ELSE Result(f, "unsupported", fileName)

\* the dirent order of os.ReadDir: entries sorted by name, byte-wise (a word
\* is ranked by its first letter)
SymOrder ==
    <<"\n", ".", "0", "1", "2", "3", "4", "5", "6", "7", "8", "9", "_",
      "a", "b", "c", "d", "docs", "sub", "txt", "work">>

SymRank(c) == CHOOSE i \in 1..Len(SymOrder) : SymOrder[i] = c

RECURSIVE NameLess(_, _)
NameLess(s, t) ==
    IF t = <<>> THEN FALSE
    ELSE IF s = <<>> THEN TRUE
    ELSE IF Head(s) = Head(t) THEN NameLess(Tail(s), Tail(t))
    ELSE SymRank(Head(s)) < SymRank(Head(t))

RECURSIVE SortNames(_)
SortNames(names) ==
    IF names = {} THEN <<>>
    ELSE LET m == CHOOSE n \in names : \A o \in names \ {n} : NameLess(n, o)
         IN  <<m>> \o SortNames(names \ {m})

\* the loop "for _, entry := range entries { os.RemoveAll(...) }": stops
\* with an error at the first entry that cannot be removed
RECURSIVE RemoveEntries(_, _, _, _)
RemoveEntries(f, trashDir, entries, locked) ==
    IF entries = <<>> THEN Result(f, "nil", <<>>)
    ELSE IF Head(entries) \in locked THEN Result(f, "remove", Head(entries))
    ELSE RemoveEntries(RemoveAll(f, Join(trashDir, Head(entries))).fs, trashDir,
                       Tail(entries), locked)

\* os.RemoveAll(dir) when the entries named in locked cannot be removed:
\* it removes everything it can and reports the first error
RemoveAllBut(f, dir, locked) ==
    LET keep == {Join(dir, n) : n \in locked} IN
    IF locked = {} THEN RemoveAll(f, dir)
    ELSE [ok |-> FALSE,
          fs |-> [q \in {r \in DOMAIN f :
                            \/ ~UnderOrAt(r, dir)
                            \/ r = dir
                            \/ \E k \in keep : UnderOrAt(r, k)} |-> f[q]]]

\* linuxSoftDeleter.EmptyTrash
LinuxEmptyTrash(f, locked, fault) ==
    LET r1 == RemoveAllBut(f, LinuxTrashDir, locked) IN
    IF ~r1.ok THEN Result(r1.fs, "remove", <<>>)
    ELSE
    LET r2 == RemoveAll(r1.fs, LinuxInfoDir) IN
    IF fault = "remove" THEN Result(r1.fs, "remove", <<>>)
    ELSE
    LET m1 == MkdirAll(r2.fs, LinuxTrashDir) IN
    IF ~m1.ok \/ fault = "mkdir" THEN Result(r2.fs, "mkdir", <<>>)
    ELSE
    LET m2 == MkdirAll(m1.fs, LinuxInfoDir) IN
    IF ~m2.ok THEN Result(m1.fs, "mkdir", <<>>)
    ELSE Result(m2.fs, "nil", <<>>)

\* macSoftDeleter.EmptyTrash and windowsSoftDeleter.EmptyTrash
PlainEmptyTrash(f, trashDir, locked, fault) ==
    LET entries == ReadDir(f, trashDir) IN
    IF ~entries.ok \/ fault = "read" THEN Result(f, "read", <<>>)
    ELSE RemoveEntries(f, trashDir, SortNames(entries.names), locked)

\* SoftDeleter.EmptyTrash of the platform's variant
EmptyTrash(os, f, locked, fault) ==
    IF os = "linux" THEN LinuxEmptyTrash(f, locked, fault)
    ELSE PlainEmptyTrash(f, TrashDir(os), locked, fault)

\* SoftDeleter.ListTrash: the entry names of the trash root, or an error
ListTrash(os, f) ==
    LET entries == ReadDir(f, TrashDir(os)) IN
    [err |-> IF entries.ok THEN "nil" ELSE "read", names |-> entries.names]

-----------------------------------------------------------------------------
(* The trash specification: the calls the command layer makes on the       *)
(* SoftDeleter (rm, restore, empty-trash) and on FileOperator.CreateFile   *)
(* (touch), one call at a time, on each platform.                          *)

MaxSteps == 3
MaxCreates == 1

Docs == Join(Home, <<"docs">>)
Work == Join(Home, <<"work">>)

\* base names of the user's files: a, a_1 and a<newline>b
BaseNames == {<<"a">>, <<"a", "_", "1">>, <<"a", "\n", "b">>}

\* the paths the commands are given: filepath.Join(cwd, arg)
UserPaths ==
    {Join(Docs, <<"a">>), Join(Work, <<"a">>), Join(Docs, <<"a", "_", "1">>),
     Join(Work, <<"a", "\n", "b">>)}

\* the bytes of the i-th file written
Content(i) == <<"#", Digit(i)>>

InitialFiles ==
    <<Join(Docs, <<"a">>), Join(Work, <<"a">>), Join(Docs, <<"a", "_", "1">>),
      Join(Work, <<"a", "\n", "b">>)>>

InitFs ==
    [q \in {Root, Home, Docs, Work} \cup {InitialFiles[i] : i \in 1..Len(InitialFiles)} |->
        IF q \in {Root, Home, Docs, Work} THEN DirNode
        ELSE FileNode(Content(CHOOSE i \in 1..Len(InitialFiles) : InitialFiles[i] = q))]

Call(op, arg, locked, fault, err, name) ==
    [op |-> op, arg |-> arg, locked |-> locked, fault |-> fault, err |-> err, name |-> name]

Init ==
    /\ platform \in {"linux", "darwin", "windows"}
    /\ fs = InitFs
    /\ nextId = Len(InitialFiles) + 1
    /\ last = Call("start", <<>>, {}, "none", "nil", <<>>)
    /\ steps = 0
    /\ app = AppNew
    /\ procs = NoProcs

\* rm <name>: App.cmdRemoveFile -> FileOperator.DeleteFile -> MoveToTrash
DoMoveToTrash ==
    \E path \in UserPaths, fault \in {"none", "rename", "write"} :
        LET r == MoveToTrash(platform, fs, path, fault) IN
        /\ steps < MaxSteps
        /\ fault = "write" => platform = "linux"
        /\ fs' = r.fs
        /\ last' = Call("MoveToTrash", path, {}, fault, r.err, r.name)
        /\ steps' = steps + 1
        /\ UNCHANGED <<platform, nextId, app, procs>>

\* the names restore is called with: the entries of the trash, the names
\* that have a record, and a name that was never trashed
RestoreNames ==
    ListTrash(platform, fs).names
        \cup {SubSeq(n, 1, Len(n) - Len(TrashInfoExt)) :
                 n \in {m \in ReadDir(fs, LinuxInfoDir).names : HasSuffix(m, TrashInfoExt)}}
        \cup {<<"b">>}

\* restore <name>: App.cmdRestoreFromTrash -> RestoreFromTrash
DoRestoreFromTrash ==
    \E fileName \in RestoreNames, fault \in {"none", "rename", "remove"} :
        LET r == RestoreFromTrash(platform, fs, fileName, fault) IN
        /\ steps < MaxSteps
        /\ fault # "none" => platform = "linux"
        /\ fs' = r.fs
        /\ last' = Call("RestoreFromTrash", fileName, {}, fault, r.err, r.name)
        /\ steps' = steps + 1
        /\ UNCHANGED <<platform, nextId, app, procs>>

\* empty-trash: App.cmdEmptyTrash -> EmptyTrash; at most one entry of the
\* trash cannot be removed
DoEmptyTrash ==
    \E locked \in {{}} \cup {{n} : n \in ListTrash(platform, fs).names} :
        LET r == EmptyTrash(platform, fs, locked, "none") IN
        /\ steps < MaxSteps
        /\ fs' = r.fs
        /\ last' = Call("EmptyTrash", <<>>, locked, "none", r.err, r.name)
        /\ steps' = steps + 1
        /\ UNCHANGED <<platform, nextId, app, procs>>

\* touch <name>: App.cmdCreateFile -> FileOperator.CreateFile (os.Create)
DoCreateFile ==
    \E path \in UserPaths :
        LET w == WriteFile(fs, path, Content(nextId)) IN
        /\ steps < MaxSteps
        /\ nextId <= Len(InitialFiles) + MaxCreates
        /\ fs' = w.fs
        /\ nextId' = nextId + 1
        /\ last' = Call("CreateFile", path, {}, "none", IF w.ok THEN "nil" ELSE "create", <<>>)
        /\ steps' = steps + 1
        /\ UNCHANGED <<platform, app, procs>>

Next ==
    \/ DoMoveToTrash
    \/ DoRestoreFromTrash
    \/ DoEmptyTrash
    \/ DoCreateFile

Spec == Init /\ [][Next]_vars

-----------------------------------------------------------------------------
(* Properties of the trash *)

\* the entries of the trash root in file system f
TrashNames(f) == ListTrash(platform, f).names

\* a step that is a call of MoveToTrash
MoveStep == last'.op = "MoveToTrash" /\ steps' = steps + 1

\* C2: MoveToTrash never overwrites a trashed item.  Every entry of the
\* trash root before the call is there unchanged after it, and when the
\* call succeeds and the base name of its argument was already an entry, the
\* file is stored as basename_k for the least k >= 1 such that basename_k
\* was no entry.
C2_NoOverwrite ==
    [][MoveStep =>
        LET path == last'.arg
            dir == TrashDir(platform)
            before == TrashNames(fs)
        IN  /\ \A q \in DOMAIN fs :
                 (q # dir /\ UnderOrAt(q, dir)) => (Exists(fs', q) /\ fs'[q] = fs[q])
            /\ (last'.err = "nil" /\ Base(path) \in before) =>
                 \E k \in 1..(Cardinality(before) + 1) :
                     /\ \A j \in 1..(k - 1) : Suffixed(Base(path), j) \in before
                     /\ Suffixed(Base(path), k) \notin before
                     /\ IsFileAt(fs', Join(dir, Suffixed(Base(path), k)))
                     /\ fs'[Join(dir, Suffixed(Base(path), k))] = fs[path]
                     /\ TrashNames(fs') = before \cup {Suffixed(Base(path), k)}
    ]_vars

\* C2 witness: a file was trashed as basename_2, after probing basename
\* and basename_1
C2_Witness ==
    /\ last.op = "MoveToTrash"
    /\ last.err = "nil"
    /\ last.name = Suffixed(Base(last.arg), 2)
    /\ {Base(last.arg), Suffixed(Base(last.arg), 1), last.name} \subseteq TrashNames(fs)

\* C3, as claimed: on Linux a RestoreFromTrash(N) that follows the
\* MoveToTrash(F) that stored F as N succeeds, puts the file back at F,
\* removes the record info/N.trashinfo, and N is no entry of the trash any
\* more.
C3_RestoreRoundTrip ==
    [][(/\ platform = "linux"
        /\ last.op = "MoveToTrash" /\ last.err = "nil"
        /\ last'.op = "RestoreFromTrash" /\ steps' = steps + 1
        /\ last'.arg = last.name /\ last'.fault = "none")
       =>
       (/\ last'.err = "nil"
        /\ IsFileAt(fs', last.arg)
        /\ fs'[last.arg] = fs[Join(LinuxTrashDir, last.name)]
        /\ ~Exists(fs', Join(LinuxInfoDir, last.name \o TrashInfoExt))
        /\ last.name \notin TrashNames(fs'))
    ]_vars

\* C4: a successful MoveToTrash(F), when the base name of F is no entry of
\* the trash root, leaves no file at F, and ListTrash returns the base name
\* of F, which names the bytes F had.
C4_MoveThenList ==
    [][(MoveStep /\ last'.err = "nil" /\ Base(last'.arg) \notin TrashNames(fs))
       =>
       (/\ ~Exists(fs', last'.arg)
        /\ ListTrash(platform, fs').err = "nil"
        /\ Base(last'.arg) \in TrashNames(fs')
        /\ fs'[Join(TrashDir(platform), Base(last'.arg))] = fs[last'.arg])
    ]_vars

\* C4 witness: a file has been trashed under its own base name
C4_Witness ==
    /\ last.op = "MoveToTrash"
    /\ last.err = "nil"
    /\ last.name = Base(last.arg)
    /\ ~Exists(fs, last.arg)
    /\ last.name \in TrashNames(fs)

\* C5, as claimed: on every platform and from every state, an EmptyTrash
\* that meets no unremovable entry succeeds and leaves the trash root
\* existing and empty: ListTrash returns no name and no error, and
\* MoveToTrash of any existing file succeeds.
C5_EmptyTrashUsable ==
    (last.op = "EmptyTrash" /\ last.locked = {})
    =>
    (/\ last.err = "nil"
     /\ IsDirAt(fs, TrashDir(platform))
     /\ ListTrash(platform, fs) = [err |-> "nil", names |-> {}]
     /\ \A path \in UserPaths :
            IsFileAt(fs, path) => MoveToTrash(platform, fs, path, "none").err = "nil")

-----------------------------------------------------------------------------
(* The archive engine: Archiver of internal/fileops.  The bytes of an      *)
(* archive file are <<"archive", codec, members>>: codec is "zip" for a    *)
(* zip container and the compression of a tar container otherwise ("none", *)
(* "gz", "bz2", "xz"); members is the sequence of the container's entries  *)
(* in container order.                                                     *)

Member(name, isDir, data) == [name |-> name, dir |-> isDir, data |-> data]

ArchiveData(codec, members) == <<"archive", codec, members>>

\* filepath.ToSlash on a Unix host
ToSlash(path) == path

\* mutant of WriterOf: an unknown format falls back to zip
WriterOfDefaultZip(format) ==
    CASE format = <<"tar", ".", "gz">> \/ format = <<"tgz">> -> "gz"
      [] format = <<"tar", ".", "bz2">> \/ format = <<"tbz2">> -> "bz2"
      [] format = <<"tar", ".", "xz">> \/ format = <<"txz">> -> "xz"
      [] format = <<"tar">> -> "none"
      [] OTHER -> "zip"

\* the switch of ArchiveFiles over the lower-cased format: the codec of the
\* writer it calls, "unsupported" for the default branch
WriterOf(format) ==
    CASE format = <<"zip">> -> "zip"
      [] format = <<"tar", ".", "gz">> \/ format = <<"tgz">> -> "gz"
      [] format = <<"tar", ".", "bz2">> \/ format = <<"tbz2">> -> "bz2"
      [] format = <<"tar", ".", "xz">> \/ format = <<"txz">> -> "xz"
      [] format = <<"tar">> -> "none"
      [] OTHER -> "unsupported"

\* the format ArchiveFiles works with: the argument, or when it is empty
\* filepath.Ext(destination) without its dot
FormatOf(destination, format) ==
    IF format = <<>>
        THEN IF Ext(destination) # <<>> THEN Tail(Ext(destination)) ELSE <<>>
        ELSE format

\* mutant of MemberName: no container falls back to the base name
MemberNameNoBase(codec, src, base) == ToSlash(base)

\* the member name addFileToZip and addFileToTar give a regular file
MemberName(codec, src, base) ==
    IF codec = "zip"
        THEN ToSlash(IF base = <<>> THEN Base(src) ELSE base)
        ELSE ToSlash(base)

\* addFileToZip / addFileToTar: the members written so far (acc) extended
\* by src, a regular file or a directory walked in os.ReadDir order
RECURSIVE AddFile(_, _, _, _, _)
RECURSIVE AddEntries(_, _, _, _, _, _)
AddFile(f, codec, src, base, acc) ==
    IF ~Exists(f, src) THEN [ok |-> FALSE, members |-> acc]
    ELSE IF IsDirAt(f, src)
        THEN AddEntries(f, codec, src, base, SortNames(ReadDir(f, src).names), acc)
    ELSE [ok |-> TRUE,
          members |-> Append(acc, Member(MemberName(codec, src, base), FALSE, f[src].data))]

AddEntries(f, codec, src, base, entries, acc) ==
    IF entries = <<>> THEN [ok |-> TRUE, members |-> acc]
    ELSE LET entryPath == Join(src, Head(entries))
             entryBase == IF base = <<>> THEN Head(entries) ELSE Join(base, Head(entries))
             r == AddFile(f, codec, entryPath, entryBase, acc)
         IN  IF ~r.ok THEN r
             ELSE AddEntries(f, codec, src, base, Tail(entries), r.members)

\* the loop "for _, src := range sources" of the archive writers
RECURSIVE AddSources(_, _, _, _)
AddSources(f, codec, sources, acc) ==
    IF sources = <<>> THEN [ok |-> TRUE, members |-> acc]
    ELSE LET r == AddFile(f, codec, Head(sources), <<>>, acc)
         IN  IF ~r.ok THEN r
             ELSE AddSources(f, codec, Tail(sources), r.members)

ArchResult(f, err, at) == [fs |-> f, err |-> err, at |-> at]

\* the bytes of a destination whose container was not finished
Unfinished == <<"unfinished">>

\* the error the archive writers return after the loop over the sources:
\* the deferred Close calls of the container writer, the compressor and the
\* file report a failure on stderr and do not change the returned error
CloseError(added, fault) == IF added THEN "nil" ELSE "add"

\* archiveZip, archiveTar and archiveTarCompressed: os.Create, then the
\* sources one after the other; the deferred Close calls finish the archive
\* with the members written, also when a source failed.  With the fault
\* "close" a Close call fails and the container is left unfinished.
WriteArchive(f, sources, destination, codec, fault) ==
    LET created == WriteFile(f, destination, <<>>) IN
    IF ~created.ok THEN ArchResult(f, "create", 0)
    ELSE IF codec = "bz2" THEN ArchResult(created.fs, "bz2", 0)
    ELSE
    LET added == AddSources(created.fs, codec, sources, <<>>)
        bytes == IF fault = "close" THEN Unfinished
                 ELSE ArchiveData(codec, added.members)
        written == WriteFile(created.fs, destination, bytes)
    IN  ArchResult(written.fs, CloseError(added.ok, fault), Len(added.members))

\* Archiver.ArchiveFiles
ArchiveFiles(f, sources, destination, format, fault) ==
    LET codec == WriterOf(ToLower(FormatOf(destination, format))) IN
    IF codec = "unsupported" THEN ArchResult(f, "format", 0)
    ELSE WriteArchive(f, sources, destination, codec, fault)

\* the suffix tests of ExtractArchive and ListArchiveContents: the codec
\* of the reader they call, "unsupported" when no test applies
ReaderOf(source) ==
    IF HasSuffix(source, <<".", "tar", ".", "gz">>) \/ HasSuffix(source, <<".", "tgz">>)
        THEN "gz"
    ELSE IF HasSuffix(source, <<".", "tar", ".", "bz2">>) \/ HasSuffix(source, <<".", "tbz2">>)
        THEN "bz2"
    ELSE IF HasSuffix(source, <<".", "tar", ".", "xz">>) \/ HasSuffix(source, <<".", "txz">>)
        THEN "xz"
    ELSE IF ToLower(Ext(source)) = <<".", "tar">> THEN "none"
    ELSE IF ToLower(Ext(source)) = <<".", "zip">> THEN "zip"
    ELSE "unsupported"

\* zip.OpenReader, and os.Open with the decompressor and tar.NewReader:
\* source is read as a container of the codec
IsArchive(f, source, codec) ==
    /\ IsFileAt(f, source)
    /\ Len(f[source].data) = 3
    /\ f[source].data[1] = "archive"
    /\ f[source].data[2] = codec

MembersOf(f, source) == f[source].data[3]

\* mutant of WithinDestination: the prefix test without the separators
WithinDestinationNoSep(fpath, destination) ==
    HasPrefix(Clean(fpath), Clean(destination))

\* strings.HasPrefix(filepath.Clean(fpath)+sep, filepath.Clean(destination)+sep)
WithinDestination(fpath, destination) ==
    HasPrefix(Clean(fpath) \o <<Sep>>, Clean(destination) \o <<Sep>>)

\* the first test of the loop of ExtractZip, which extractTarCompressed
\* does not make
UnsafeName(codec, name) ==
    codec = "zip" /\ (Contains(name, <<".", ".">>) \/ IsAbs(name))

\* the loops of ExtractZip and extractTarCompressed from member i on
RECURSIVE ExtractMembers(_, _, _, _, _)
ExtractMembers(f, codec, destination, members, i) ==
    IF i > Len(members) THEN ArchResult(f, "nil", i)
    ELSE
    LET m == members[i]
        fpath == Join(destination, m.name)
    IN
    IF UnsafeName(codec, m.name) THEN ArchResult(f, "unsafe", i)
    ELSE IF ~WithinDestination(fpath, destination) THEN ArchResult(f, "traversal", i)
    ELSE IF m.dir THEN
        LET mk == MkdirAll(f, fpath) IN
        IF ~mk.ok THEN ArchResult(f, "io", i)
        ELSE ExtractMembers(mk.fs, codec, destination, members, i + 1)
    ELSE
        LET mk == MkdirAll(f, Dir(fpath)) IN
        IF ~mk.ok THEN ArchResult(f, "io", i)
        ELSE
        LET w == WriteFile(mk.fs, fpath, m.data) IN
        IF ~w.ok THEN ArchResult(mk.fs, "io", i)
        ELSE ExtractMembers(w.fs, codec, destination, members, i + 1)

\* Archiver.ExtractArchive
ExtractArchive(f, source, destination) ==
    LET codec == ReaderOf(source) IN
    IF codec = "unsupported" THEN ArchResult(f, "format", 0)
    ELSE IF ~IsArchive(f, source, codec) THEN ArchResult(f, "open", 0)
    ELSE ExtractMembers(f, codec, destination, MembersOf(f, source), 1)

\* Archiver.ListArchiveContents: the member names as stored
ListArchiveContents(f, source) ==
    LET codec == ReaderOf(source) IN
    IF codec = "unsupported" THEN [err |-> "format", names |-> <<>>]
    ELSE IF ~IsArchive(f, source, codec) THEN [err |-> "open", names |-> <<>>]
    ELSE [err |-> "nil",
          names |-> [i \in 1..Len(MembersOf(f, source)) |-> MembersOf(f, source)[i].name]]

-----------------------------------------------------------------------------
(* The archive specification: the commands archive, extract and lsarchive  *)
(* of the application in the working directory /w.  A run archives at     *)
(* most once, as its first call, and then reads archives.                  *)

Cwd == <<Sep, "w">>

ATxt == <<"a", ".", "txt">>
BTxt == <<"b", ".", "txt">>
CTxt == <<"c", ".", "txt">>
OldTxt == <<"old", ".", "txt">>

\* the tree the commands start on: a.txt, b.txt and sub/c.txt, and an
\* out.zip left by an earlier run
ArchInitFs ==
    LET dirs == {Root, Cwd, Join(Cwd, <<"sub">>)}
        files == {Join(Cwd, ATxt), Join(Cwd, BTxt), Join(Cwd, <<"sub", Sep>> \o CTxt),
                  Join(Cwd, <<"out", ".", "zip">>)}
    IN  [q \in dirs \cup files |->
            IF q \in dirs THEN DirNode
            ELSE IF q = Join(Cwd, ATxt) THEN FileNode(<<"A">>)
            ELSE IF q = Join(Cwd, BTxt) THEN FileNode(<<"B">>)
            ELSE IF q = Join(Cwd, <<"sub", Sep>> \o CTxt) THEN FileNode(<<"C">>)
            ELSE FileNode(ArchiveData("zip", <<Member(OldTxt, FALSE, <<"O">>)>>))]

\* the sources of an archive command: files in both orders, a missing
\* source after an existing one, a directory
SourceLists ==
    {<<ATxt, BTxt>>, <<BTxt, ATxt>>, <<ATxt, <<"nope">>>>, <<<<"sub">>, ATxt>>}

\* destination and format argument of an archive command where the format
\* argument names the format of the destination's suffix
NamedJobs ==
    {<<<<"out", ".", "zip">>, <<"zip">>>>,
     <<<<"out", ".", "tar">>, <<"tar">>>>,
     <<<<"out", ".", "tar", ".", "gz">>, <<"tar", ".", "gz">>>>,
     <<<<"out", ".", "tar", ".", "xz">>, <<"tar", ".", "xz">>>>}

\* the other destinations and format arguments: the format left empty, its
\* short and upper-case spellings, an unknown one
OtherJobs ==
    {<<<<"out", ".", "zip">>, <<>>>>,
     <<<<"OUT", ".", "ZIP">>, <<>>>>,
     <<<<"out", ".", "tar">>, <<>>>>,
     <<<<"out", ".", "tar", ".", "gz">>, <<>>>>,
     <<<<"out", ".", "tgz">>, <<>>>>,
     <<<<"out", ".", "tar", ".", "bz2">>, <<>>>>,
     <<<<"out", ".", "tar", ".", "xz">>, <<>>>>,
     <<<<"out", ".", "txz">>, <<>>>>,
     <<<<"out", ".", "xyz">>, <<>>>>,
     <<<<"out">>, <<>>>>,
     <<<<"out", ".", "zip">>, <<"ZIP">>>>,
     <<<<"out", ".", "zip">>, <<"rar">>>>,
     <<<<"out", ".", "tgz">>, <<"tgz">>>>,
     <<<<"out", ".", "tar", ".", "bz2">>, <<"tar", ".", "bz2">>>>,
     <<<<"out", ".", "tbz2">>, <<"tbz2">>>>,
     <<<<"out", ".", "txz">>, <<"txz">>>>}

\* the directories an extract command names: a new one and the working
\* directory
ExtractDirs == {<<"x">>, <<".">>}

ArchCall(op, sources, dest, format, fault, err, at, names) ==
    [op |-> op, sources |-> sources, dest |-> dest, format |-> format,
     fault |-> fault, err |-> err, at |-> at, names |-> names]

ArchiveInit ==
    /\ platform = "linux"
    /\ fs = ArchInitFs
    /\ nextId = 0
    /\ last = ArchCall("start", <<>>, <<>>, <<>>, "none", "nil", 0, <<>>)
    /\ steps = 0
    /\ app = AppNew
    /\ procs = NoProcs

\* archive <name> <format> <sources...>: Archiver.ArchiveFiles as
\* App.cmdCreateArchive calls it, with the paths joined to the working
\* directory; the format argument is empty when a caller leaves the format
\* to the destination's extension.  With the fault "close" a Close call
\* at the end of the writer fails.
DoArchiveFiles ==
    /\ steps = 0
    /\ \E names \in SourceLists, job \in NamedJobs \cup OtherJobs,
          fault \in {"none", "close"} :
        /\ names = <<ATxt, BTxt>> \/ job \in NamedJobs
        /\ fault = "close" => job \in NamedJobs
        /\ LET sources == [i \in 1..Len(names) |-> Join(Cwd, names[i])]
               destination == Join(Cwd, job[1])
               r == ArchiveFiles(fs, sources, destination, job[2], fault)
           IN  /\ fs' = r.fs
               /\ last' = ArchCall("ArchiveFiles", sources, destination, job[2],
                                   fault, r.err, r.at, <<>>)
    /\ steps' = steps + 1
    /\ UNCHANGED <<platform, nextId, app, procs>>

\* the archives an extract or lsarchive command can name: the files of the
\* working directory with the name of a destination
ArchivePaths ==
    {Join(Cwd, job[1]) : job \in NamedJobs \cup OtherJobs} \cap DOMAIN fs

\* extract <archive> <directory>: App.cmdExtractArchive
DoExtractArchive ==
    /\ steps < MaxSteps
    /\ \E source \in ArchivePaths, dir \in ExtractDirs :
        LET destination == Join(Cwd, dir)
            r == ExtractArchive(fs, source, destination)
        IN  /\ fs' = r.fs
            /\ last' = ArchCall("ExtractArchive", <<source>>, destination, <<>>, "none",
                                r.err, r.at, <<>>)
    /\ steps' = steps + 1
    /\ UNCHANGED <<platform, nextId, app, procs>>

\* lsarchive <archive>: App.cmdListArchive
DoListArchive ==
    /\ steps < MaxSteps
    /\ \E source \in ArchivePaths :
        LET r == ListArchiveContents(fs, source)
        IN  last' = ArchCall("ListArchiveContents", <<source>>, <<>>, <<>>, "none",
                             r.err, 0, r.names)
    /\ steps' = steps + 1
    /\ UNCHANGED <<platform, fs, nextId, app, procs>>

ArchiveNext ==
    \/ DoArchiveFiles
    \/ DoExtractArchive
    \/ DoListArchive

ArchiveSpec == ArchiveInit /\ [][ArchiveNext]_vars

-----------------------------------------------------------------------------
(* The extraction specification: archives that were not written by         *)
(* ArchiveFiles, one of each container with the same entries, and the      *)
(* extract command run on them.                                            *)

Evil == <<"evil">>

\* the entries of the foreign archives, by container order
Payloads ==
    {<<Member(ATxt, FALSE, <<"A">>)>>,
     <<Member(<<".", ".", Sep, ".", ".", Sep>> \o Evil, FALSE, <<"E">>)>>,
     <<Member(ATxt, FALSE, <<"A">>), Member(<<".", ".", Sep>> \o Evil, FALSE, <<"E">>)>>,
     <<Member(<<Sep, "abs", Sep>> \o Evil, FALSE, <<"E">>)>>,
     <<Member(<<"sub", Sep, ".", ".", Sep, ".", ".", Sep>> \o Evil, FALSE, <<"E">>)>>,
     <<Member(<<".", ".", Sep, "x", "y", Sep>> \o Evil, FALSE, <<"E">>)>>,
     <<Member(<<>>, FALSE, <<"A">>), Member(<<".", ".", Sep>> \o Evil, FALSE, <<"E">>)>>,
     <<Member(<<"a", ".", ".", "b">>, FALSE, <<"A">>)>>,
     <<Member(<<"d">>, TRUE, <<>>), Member(<<"d", Sep>> \o ATxt, FALSE, <<"A">>)>>,
     <<Member(<<"d", Sep, ".", ".", Sep>> \o ATxt, FALSE, <<"A">>)>>,
     <<Member(<<".", ".", Sep, "d">>, TRUE, <<>>)>>}

\* the name of the foreign archive of each container
ForeignName(codec) ==
    CASE codec = "zip" -> <<"in", ".", "zip">>
      [] codec = "none" -> <<"in", ".", "tar">>
      [] codec = "gz" -> <<"in", ".", "tar", ".", "gz">>
      [] codec = "bz2" -> <<"in", ".", "tbz2">>
      [] codec = "xz" -> <<"in", ".", "tar", ".", "xz">>

Codecs == {"zip", "none", "gz", "bz2", "xz"}

ForeignPaths == {Join(Cwd, ForeignName(codec)) : codec \in Codecs}

\* the directories the extract command names here: the new directory x, the
\* working directory and the root above it
ForeignDirs == {<<"x">>, <<".">>, <<".", ".">>}

ForeignFs(members) ==
    [q \in {Root, Cwd} \cup ForeignPaths |->
        IF q \in {Root, Cwd} THEN DirNode
        ELSE FileNode(ArchiveData(CHOOSE codec \in Codecs : q = Join(Cwd, ForeignName(codec)),
                                  members))]

ExtractInit ==
    /\ platform = "linux"
    /\ \E members \in Payloads : fs = ForeignFs(members)
    /\ nextId = 0
    /\ last = ArchCall("start", <<>>, <<>>, <<>>, "none", "nil", 0, <<>>)
    /\ steps = 0
    /\ app = AppNew
    /\ procs = NoProcs

\* extract <archive> <directory>: App.cmdExtractArchive on a foreign archive
DoExtractForeign ==
    /\ steps < MaxSteps
    /\ \E source \in ForeignPaths \cap DOMAIN fs, dir \in ForeignDirs :
        LET destination == Join(Cwd, dir)
            r == ExtractArchive(fs, source, destination)
        IN  /\ fs' = r.fs
            /\ last' = ArchCall("ExtractArchive", <<source>>, destination, <<>>, "none",
                                r.err, r.at, <<>>)
    /\ steps' = steps + 1
    /\ UNCHANGED <<platform, nextId, app, procs>>

\* lsarchive <archive>: App.cmdListArchive on a foreign archive
DoListForeign ==
    /\ steps < MaxSteps
    /\ \E source \in ForeignPaths \cap DOMAIN fs :
        LET r == ListArchiveContents(fs, source)
        IN  last' = ArchCall("ListArchiveContents", <<source>>, <<>>, <<>>, "none",
                             r.err, 0, r.names)
    /\ steps' = steps + 1
    /\ UNCHANGED <<platform, fs, nextId, app, procs>>

ExtractNext ==
    \/ DoExtractForeign
    \/ DoListForeign

ExtractSpec == ExtractInit /\ [][ExtractNext]_vars

-----------------------------------------------------------------------------
(* Properties of the archive engine.                                       *)

ArchiveStep == last'.op = "ArchiveFiles" /\ steps' = steps + 1
ExtractStep == last'.op = "ExtractArchive" /\ steps' = steps + 1
ListStep == last'.op = "ListArchiveContents" /\ steps' = steps + 1

\* the entry at q differs between the two states of a step
Changed(q) ==
    IF q \in DOMAIN fs /\ q \in DOMAIN fs' THEN fs'[q] # fs[q] ELSE TRUE

\* the member name, taken below destination, names a path outside of it
Escapes(destination, name) ==
    ~UnderOrAt(Clean(destination \o <<Sep>> \o name), destination)

EscapingMembers(members, destination) ==
    {i \in 1..Len(members) : Escapes(destination, members[i].name)}

\* the codec that ArchiveFiles resolved for a recorded call
CodecOf(call) == WriterOf(ToLower(FormatOf(call.dest, call.format)))

AllRegular(f, sources) == \A i \in 1..Len(sources) : IsFileAt(f, sources[i])

BaseNamesOf(sources) == [i \in 1..Len(sources) |-> Base(sources[i])]

C6_ZipRoundTrip ==
    [][/\ ArchiveStep =>
            \A i \in 1..Len(last'.sources) :
                LET src == last'.sources[i] IN
                (src \in DOMAIN fs /\ src # last'.dest) =>
                    (src \in DOMAIN fs' /\ fs'[src] = fs[src])
       /\ (/\ last.op = "ArchiveFiles"
           /\ last.err = "nil"
           /\ last.fault = "none"
           /\ CodecOf(last) = "zip"
           /\ HasSuffix(ToLower(last.dest), <<".", "zip">>)
           /\ {Base(last.sources[i]) : i \in 1..Len(last.sources)} = {ATxt, BTxt}
           /\ AllRegular(fs, last.sources)
           /\ ExtractStep
           /\ last'.sources = <<last.dest>>
           /\ ~Exists(fs, last'.dest))
          =>
          (/\ last'.err = "nil"
           /\ \A i \in 1..Len(last.sources) :
                /\ Exists(fs', Join(last'.dest, Base(last.sources[i])))
                /\ fs'[Join(last'.dest, Base(last.sources[i]))] = fs[last.sources[i]]
                /\ fs'[last.sources[i]] = fs[last.sources[i]]
           /\ {q \in DOMAIN fs' : UnderOrAt(q, last'.dest)} =
                {last'.dest} \cup
                {Join(last'.dest, Base(last.sources[i])) : i \in 1..Len(last.sources)})
    ]_vars

\* C6 witness: out.zip was extracted into the new directory x with
\* success, and x holds a.txt and b.txt with the bytes of the sources.
C6_Witness ==
    /\ last.op = "ExtractArchive"
    /\ last.err = "nil"
    /\ last.sources = <<Join(Cwd, <<"out", ".", "zip">>)>>
    /\ last.dest = Join(Cwd, <<"x">>)
    /\ IsFileAt(fs, Join(last.dest, ATxt))
    /\ IsFileAt(fs, Join(last.dest, BTxt))
    /\ fs[Join(last.dest, ATxt)] = fs[Join(Cwd, ATxt)]
    /\ fs[Join(last.dest, BTxt)] = fs[Join(Cwd, BTxt)]

\* C7: for every format ArchiveFiles writes (zip, tar, tar.gz, tar.xz),
\* after it has archived regular files with success (no Close failed) into
\* a destination named for the format, ListArchiveContents of the destination succeeds
\* and returns exactly the base names of the sources, in their order.
C7_ListMatchesSources ==
    [][(/\ last.op = "ArchiveFiles"
        /\ last.err = "nil"
        /\ last.fault = "none"
        /\ CodecOf(last) \in {"zip", "none", "gz", "xz"}
        /\ ReaderOf(last.dest) = CodecOf(last)
        /\ AllRegular(fs, last.sources)
        /\ ListStep
        /\ last'.sources = <<last.dest>>)
       =>
       (/\ last'.err = "nil"
        /\ last'.names = BaseNamesOf(last.sources)
        /\ \A i \in 1..Len(last'.names) :
            last'.names[i] # <<>> /\ ~IsAbs(last'.names[i]))
    ]_vars

\* C8: an ArchiveFiles call with a source that does not exist returns an
\* error and leaves the destination as it was: not created when it did not
\* exist, its bytes unchanged when it did.
C8_MissingSourceBeforeWriting ==
    [][(ArchiveStep /\ \E i \in 1..Len(last'.sources) : ~Exists(fs, last'.sources[i]))
       =>
       (/\ last'.err # "nil"
        /\ Exists(fs', last'.dest) <=> Exists(fs, last'.dest)
        /\ Exists(fs, last'.dest) => fs'[last'.dest] = fs[last'.dest])
    ]_vars

\* the format tokens of the specification
KnownTokens ==
    {<<"zip">>, <<"tar">>, <<"tar", ".", "gz">>, <<"tgz">>, <<"tar", ".", "bz2">>,
     <<"tbz2">>, <<"tar", ".", "xz">>, <<"txz">>}

\* no format token is the suffix of destination after a dot
UnknownExtension(destination) ==
    \A t \in KnownTokens : ~HasSuffix(ToLower(destination), <<".">> \o t)

\* C9: an ArchiveFiles call with an empty format argument and a destination
\* whose extension is empty or no format token returns the
\* unsupported-format error and creates no file (the file system is as
\* before).
C9_UnknownExtensionRejected ==
    [][(ArchiveStep /\ last'.format = <<>> /\ UnknownExtension(last'.dest))
       => (last'.err = "format" /\ fs' = fs)
    ]_vars

\* C9 witness: archiving into out.xyz with an empty format argument
\* returned the unsupported-format error and out.xyz does not exist.
C9_Witness ==
    /\ last.op = "ArchiveFiles"
    /\ last.format = <<>>
    /\ last.dest = Join(Cwd, <<"out", ".", "xyz">>)
    /\ last.err = "format"
    /\ ~Exists(fs, last.dest)

\* C10: an ArchiveFiles call with an empty format argument and a
\* destination that ends in .tar.gz, .tar.bz2 or .tar.xz resolves the format
\* that ExtractArchive and ListArchiveContents resolve for that name: it does
\* not return the unsupported-format error, and when it succeeds the
\* destination is an archive that they read.
C10_SameFormatAsExtract ==
    [][(/\ ArchiveStep
        /\ last'.format = <<>>
        /\ last'.fault = "none"
        /\ \/ HasSuffix(last'.dest, <<".", "tar", ".", "gz">>)
           \/ HasSuffix(last'.dest, <<".", "tar", ".", "bz2">>)
           \/ HasSuffix(last'.dest, <<".", "tar", ".", "xz">>))
       =>
       (/\ last'.err # "format"
        /\ last'.err = "nil" => IsArchive(fs', last'.dest, ReaderOf(last'.dest)))
    ]_vars


\* the errors by which an extract call rejects a member for its name
NameErrors == {"unsafe", "traversal"}

\* name is filesystem-absolute or has a ".." path segment
HasDotDotSegment(name) ==
    \E i \in 1..Len(Split(name, Sep)) : Split(name, Sep)[i] = <<".", ".">>

\* C11: the member-name check is the same for every container.  An extract
\* call on a tar, tar.gz, tar.bz2 or tar.xz archive rejects a member for its
\* name exactly when the extract call on the zip archive with the same
\* members, into the same destination in the same state, does; and an
\* archive whose first member has an absolute name or a name with a ".."
\* segment is rejected with nothing written.
C11_SameNameCheck ==
    [][(ExtractStep /\ ReaderOf(last'.sources[1]) # "zip")
       =>
       LET source == last'.sources[1]
           zipSource == Join(Cwd, ForeignName("zip"))
           members == fs[source].data[3]
       IN  (IsArchive(fs, zipSource, "zip") /\ MembersOf(fs, zipSource) = members)
           =>
           /\ (last'.err \in NameErrors) <=>
                (ExtractArchive(fs, zipSource, last'.dest).err \in NameErrors)
           /\ (IsAbs(members[1].name) \/ HasDotDotSegment(members[1].name))
                => (last'.err \in NameErrors /\ fs' = fs)
    ]_vars

\* C12: an extract call that returns the path-traversal error has written
\* nothing: the file system is as before the call, also for the members
\* that precede the violating member in the container.
C12_TraversalWritesNothing ==
    [][(ExtractStep /\ last'.err = "traversal") => fs' = fs]_vars

-----------------------------------------------------------------------------
(* Further properties of soft delete.                                      *)

RestoreStep == last'.op = "RestoreFromTrash" /\ steps' = steps + 1

\* the record of the trash entry name on the metadata-tracking variant
InfoPath(name) == Join(LinuxInfoDir, name \o TrashInfoExt)

\* C13: on the metadata-tracking variant (Linux) a RestoreFromTrash call
\* for a name that has no record info/<name>.trashinfo returns the error of
\* reading the missing record and changes nothing: the trash, the records
\* and every other file are as before.
C13_RestoreWithoutRecord ==
    [][(RestoreStep /\ platform = "linux" /\ ~Exists(fs, InfoPath(last'.arg)))
       => (last'.err = "read" /\ fs' = fs)
    ]_vars

\* C13 witness: restore was called on Linux for an entry of the trash that
\* has no record; it returned the read error and the entry is still there.
C13_Witness ==
    /\ platform = "linux"
    /\ last.op = "RestoreFromTrash"
    /\ last.err = "read"
    /\ ~Exists(fs, InfoPath(last.arg))
    /\ IsFileAt(fs, Join(LinuxTrashDir, last.arg))

\* C14: on macOS and Windows every RestoreFromTrash call, for every name
\* and in every state, returns the restore-unsupported error and changes
\* nothing: the trash and every other file are as before.
C14_RestoreUnsupported ==
    [][(RestoreStep /\ platform # "linux")
       => (last'.err = "unsupported" /\ fs' = fs)
    ]_vars

\* C14 witness: restore was called on macOS for an entry of the trash; it
\* returned the restore-unsupported error and the entry is still there.
C14_Witness ==
    /\ platform = "darwin"
    /\ last.op = "RestoreFromTrash"
    /\ last.err = "unsupported"
    /\ IsFileAt(fs, Join(MacTrashDir, last.arg))

-----------------------------------------------------------------------------
(* The direct specification: FileOperator.DeleteFile and the SoftDeleter   *)
(* of the metadata-tracking variant called with the path names a caller    *)
(* of the package can pass, absolute or relative to the working directory. *)

\* the path arguments: docs/a by its absolute name, work/a and docs/a_1 by
\* names relative to the working directory work
DirectPaths ==
    {Join(Docs, <<"a">>), <<"a">>, <<".", ".", Sep, "docs", Sep, "a", "_", "1">>}

DirectInit ==
    /\ platform = "linux"
    /\ fs = InitFs
    /\ nextId = Len(InitialFiles) + 1
    /\ last = Call("start", <<>>, {}, "none", "nil", <<>>)
    /\ steps = 0
    /\ app = AppNew
    /\ procs = NoProcs

\* FileOperator.DeleteFile(path) -> MoveToTrash(path)
DoDeleteFile ==
    \E path \in DirectPaths, fault \in {"none", "write"} :
        LET r == MoveToTrash(platform, fs, path, fault) IN
        /\ steps < MaxSteps
        /\ fs' = r.fs
        /\ last' = Call("MoveToTrash", path, {}, fault, r.err, r.name)
        /\ steps' = steps + 1
        /\ UNCHANGED <<platform, nextId, app, procs>>

DirectNext ==
    \/ DoDeleteFile
    \/ DoRestoreFromTrash
    \/ DoCreateFile

DirectSpec == DirectInit /\ [][DirectNext]_vars

\* C15: on the metadata-tracking variant a successful MoveToTrash(path)
\* writes the record info/<trashedName>.trashinfo with the content
\* "[Trash Info]\nPath=<p>\nDeletionDate=<timestamp>\n" where <p> is the
\* absolute path the file had, for absolute and for relative path arguments,
\* and writes or changes no other record.
C15_RecordHoldsAbsolutePath ==
    [][(MoveStep /\ platform = "linux" /\ last'.err = "nil")
       =>
       /\ IsFileAt(fs', InfoPath(last'.name))
       /\ fs'[InfoPath(last'.name)].data = TrashInfo(Resolve(last'.arg))
       /\ \A q \in DOMAIN fs \cup DOMAIN fs' :
            (UnderOrAt(q, LinuxInfoDir) /\ q # LinuxInfoDir /\ q # InfoPath(last'.name))
                => ~Changed(q)
    ]_vars

\* C16: an ArchiveFiles call in which the Close of the container writer,
\* of the compressor or of the destination file fails returns an error; it
\* never returns success after a failed Close.
C16_CloseFailureEscalated ==
    [][(ArchiveStep /\ last'.fault = "close") => last'.err # "nil"]_vars

-----------------------------------------------------------------------------
(* The logger (Logger.Log and its wrappers) and the command layer           *)
(* (App.Start, App.processCommand and the handlers of touch, rm, restore,   *)
(* extract, archive and exit).                                              *)

\* the number of entries the model's logger keeps (NewLogger: 1000)
MaxEntries == 2

\* a LogEntry; the Timestamp is the position of the entry among the
\* entries accepted so far
LogEntry(n, level, operation, err) ==
    [Timestamp |-> n, Level |-> level, Operation |-> operation, Error |-> err]

\* mutant of TrimEntries: the newest entries are dropped
TrimNewest(entries) ==
    IF Len(entries) > MaxEntries THEN SubSeq(entries, 1, MaxEntries) ELSE entries

\* Logger.Log: l.entries[len(l.entries)-l.MaxEntries:] once the limit is
\* passed
TrimEntries(entries) ==
    IF Len(entries) > MaxEntries
        THEN SubSeq(entries, Len(entries) - MaxEntries + 1, Len(entries))
        ELSE entries

\* Logger.Log: the level check
Accepts(level, loggerLevel) == ~(level < loggerLevel)

\* Logger.Log on the logger held in a; the error of SaveLog is dropped
Log(a, level, operation, err) ==
    IF ~Accepts(level, a.Level) THEN a
    ELSE LET entry == LogEntry(Len(a.accepted) + 1, level, operation, err) IN
         [a EXCEPT !.entries = TrimEntries(Append(@, entry)),
                   !.accepted = Append(@, entry)]

Debug(a, operation, err) == Log(a, DEBUG, operation, err)
Info(a, operation, err) == Log(a, INFO, operation, err)
Warning(a, operation, err) == Log(a, WARNING, operation, err)
Error(a, operation, err) == Log(a, ERROR, operation, err)

\* Navigator.GetCurrentDirectory: the directory os.Getwd gave NewNavigator
GetCurrentDirectory == ProcessDir

\* what a handler did: the file system it leaves, the error it returns,
\* whether it cleared isRunning, and whether it panicked instead of
\* returning
Returned(f, err) == [fs |-> f, err |-> err, stop |-> FALSE, panic |-> FALSE]
Panicked(f) == [fs |-> f, err |-> "panic", stop |-> FALSE, panic |-> TRUE]

\* a handler that returns what the operation it called returned
ReturnedFrom(r) == Returned(r.fs, r.err)

\* FileOperator.CreateFile: os.Create, then the deferred Close, whose error
\* is raised as a panic
Created(f, w, fault) ==
    IF ~w.ok THEN Returned(f, "create")
    ELSE IF fault = "close" THEN Panicked(w.fs)
    ELSE Returned(w.fs, "nil")

CreateFile(f, path, fault) == Created(f, WriteFile(f, path, <<>>), fault)

cmdCreateFile(f, args, fault) ==
    IF Len(args) # 1 THEN Returned(f, "args")
    ELSE CreateFile(f, Join(GetCurrentDirectory, args[1]), fault)

cmdRemoveFile(os, f, args, fault) ==
    IF Len(args) # 1 THEN Returned(f, "args")
    ELSE ReturnedFrom(MoveToTrash(os, f, Join(GetCurrentDirectory, args[1]), fault))

cmdRestoreFromTrash(os, f, args, fault) ==
    IF Len(args) # 1 THEN Returned(f, "args")
    ELSE ReturnedFrom(RestoreFromTrash(os, f, args[1], fault))

cmdExtractArchive(f, args) ==
    IF Len(args) # 2 THEN Returned(f, "args")
    ELSE ReturnedFrom(ExtractArchive(f, Join(GetCurrentDirectory, args[1]),
                                     Join(GetCurrentDirectory, args[2])))

cmdCreateArchive(f, args, fault) ==
    IF Len(args) < 3 THEN Returned(f, "args")
    ELSE ReturnedFrom(ArchiveFiles(f,
                                   [i \in 1..(Len(args) - 2) |->
                                       Join(GetCurrentDirectory, args[i + 2])],
                                   Join(GetCurrentDirectory, args[1]), args[2], fault))

\* mutant of cmdExit: isRunning is left as it is
cmdExitKeepsRunning(f) == Returned(f, "nil")

cmdExit(f) == [Returned(f, "nil") EXCEPT !.stop = TRUE]

\* the names registerCommands binds to the handlers above
Commands ==
    {<<"touch">>, <<"rm">>, <<"restore">>, <<"extract">>, <<"archive">>, <<"exit">>}

\* cmd.Execute(args)
Execute(os, f, cmdName, args, fault) ==
    CASE cmdName = <<"touch">> -> cmdCreateFile(f, args, fault)
      [] cmdName = <<"rm">> -> cmdRemoveFile(os, f, args, fault)
      [] cmdName = <<"restore">> -> cmdRestoreFromTrash(os, f, args, fault)
      [] cmdName = <<"extract">> -> cmdExtractArchive(f, args)
      [] cmdName = <<"archive">> -> cmdCreateArchive(f, args, fault)
      [] cmdName = <<"exit">> -> cmdExit(f)

\* the App after the handler: cmdExit has cleared isRunning
AfterHandler(a, r) == IF r.stop THEN [a EXCEPT !.isRunning = FALSE] ELSE a

\* App.processCommand after cmd.Execute: the error is logged as ERROR, a
\* success as INFO, and the error is returned; after a panic of the handler
\* nothing of processCommand runs
LogAndReturn(a, cmdName, r) ==
    IF r.panic THEN [fs |-> r.fs, app |-> AfterHandler(a, r), err |-> r.err, panic |-> TRUE]
    ELSE [fs |-> r.fs,
          app |-> IF r.err # "nil" THEN Error(AfterHandler(a, r), cmdName, r.err)
                  ELSE Info(AfterHandler(a, r), cmdName, "nil"),
          err |-> r.err, panic |-> FALSE]

\* App.processCommand on the words of the line
ProcessWords(os, f, a, parts, fault) ==
    IF parts[1] \notin Commands
        THEN [fs |-> f, app |-> a, err |-> "unknown", panic |-> FALSE]
        ELSE LogAndReturn(a, parts[1], Execute(os, f, parts[1], Tail(parts), fault))

\* App.processCommand: the file system and the App it leaves and the error
\* it returns
ProcessCommand(os, f, a, input, fault) ==
    ProcessWords(os, f, a, Split(input, " "), fault)

-----------------------------------------------------------------------------
(* The loop specification: App.Start reading lines from standard input.    *)

\* the archive in.zip of the working directory, with an entry that leaves
\* the destination
LoopArchive == Join(Work, ForeignName("zip"))

LoopFs ==
    [q \in DOMAIN InitFs \cup {LoopArchive} |->
        IF q = LoopArchive
            THEN FileNode(ArchiveData("zip",
                     <<Member(<<".", ".", Sep>> \o Evil, FALSE, <<"E">>)>>))
            ELSE InitFs[q]]

\* the lines typed: the empty line, exit, an unknown command, touch of a
\* file and of a file in a missing directory, rm, restore, extract of
\* in.zip into out, archive with the formats rar and zip
Lines ==
    {<<>>,
     <<"exit">>,
     <<"frobnicate">>,
     <<"touch", " ", "n">>,
     <<"touch", " ", "x", Sep, "n">>,
     <<"rm", " ", "a">>,
     <<"restore", " ", "a">>,
     <<"extract", " ">> \o ForeignName("zip") \o <<" ", "out">>,
     <<"archive", " ", "o", " ", "rar", " ", "a">>,
     <<"archive", " ", "o", " ", "zip", " ", "a">>}

\* the failures of the system calls of a command: Close (touch, archive),
\* the write of the record (rm)
FaultsOf(input) ==
    CASE input[1] \in {"touch", "archive"} -> {"none", "close"}
      [] input[1] = "rm" -> {"none", "write"}
      [] OTHER -> {"none"}

\* the number of lines standard input holds at most
MaxLines == 2

\* no command has been processed: last names no command
LoopInit ==
    /\ platform \in {"linux", "darwin", "windows"}
    /\ fs = LoopFs
    /\ nextId = 0
    /\ last = Call(<<>>, <<>>, {}, "none", "nil", <<>>)
    /\ steps = 0
    /\ app = AppNew
    /\ procs = NoProcs

\* App.Start up to the loop
DoStart ==
    /\ app.pc = "new"
    /\ app' = [app EXCEPT !.pc = "prompt", !.isRunning = TRUE]
    /\ UNCHANGED <<platform, fs, nextId, last, steps, procs>>

\* the loop condition holds and scanner.Scan returns a line: an empty line
\* goes back to the prompt, another line is handed to processCommand
DoReadLine ==
    \E line \in Lines :
        /\ app.pc = "prompt"
        /\ app.isRunning
        /\ steps < MaxLines
        /\ app' = [app EXCEPT !.pc = IF line = <<>> THEN "prompt" ELSE "command",
                              !.input = line]
        /\ steps' = steps + 1
        /\ UNCHANGED <<platform, fs, nextId, last, procs>>

\* the loop condition holds and scanner.Scan returns false: the input ended
DoEndOfInput ==
    /\ app.pc = "prompt"
    /\ app.isRunning
    /\ app' = [app EXCEPT !.pc = "ended"]
    /\ UNCHANGED <<platform, fs, nextId, last, steps, procs>>

\* a.processCommand(input) in the loop; a panic of the handler is recovered
\* nowhere and ends the process
Processed(parts, fault, r) ==
    /\ fs' = r.fs
    /\ app' = [r.app EXCEPT !.pc = IF r.panic THEN "panicked" ELSE "prompt"]
    /\ last' = Call(parts[1], Tail(parts), {}, fault, r.err, <<>>)
    /\ UNCHANGED <<platform, nextId, steps, procs>>

DoProcessCommand ==
    /\ app.pc = "command"
    /\ \E fault \in FaultsOf(app.input) :
        Processed(Split(app.input, " "), fault,
                  ProcessCommand(platform, fs, app, app.input, fault))

\* the loop condition fails: Start prints its last line and returns
DoLoopExit ==
    /\ app.pc = "prompt"
    /\ ~app.isRunning
    /\ app' = [app EXCEPT !.pc = "ended"]
    /\ UNCHANGED <<platform, fs, nextId, last, steps, procs>>

LoopNext ==
    \/ DoStart
    \/ DoReadLine
    \/ DoEndOfInput
    \/ DoProcessCommand
    \/ DoLoopExit

LoopSpec == LoopInit /\ [][LoopNext]_vars

\* the loop as the thread of a running process executes it: between the
\* failed loop condition and the return of Start there is no blocking call,
\* so the return is not postponed forever
LoopFairSpec == LoopSpec /\ WF_vars(DoLoopExit)

\* a step of processCommand on a registered command
ProcessStep == app.pc = "command" /\ app'.pc # "command" /\ last'.op \in Commands

\* C17: a command whose handler fails (not found, I/O failure, unsupported
\* format, path traversal, restore unsupported, close failure) never ends
\* the process: processCommand returns the error after logging it as an
\* ERROR entry of the command, and the loop is running and at its prompt.
C17_ErrorsKeepLoopRunning ==
    [][(ProcessStep /\ last'.err # "nil")
       =>
       /\ last'.err # "panic"
       /\ app'.pc = "prompt"
       /\ app'.isRunning
       /\ Len(app'.accepted) = Len(app.accepted) + 1
       /\ app'.entries # <<>>
       /\ app'.entries[Len(app'.entries)].Level = ERROR
       /\ app'.entries[Len(app'.entries)].Operation = last'.op
       /\ app'.entries[Len(app'.entries)].Error = last'.err
    ]_vars

\* the same for the handlers whose operation returns its failure
C17_ReturnedErrorsKeepLoopRunning ==
    [][(ProcessStep /\ last'.err # "nil" /\ last'.fault # "close")
       =>
       /\ app'.pc = "prompt"
       /\ app'.isRunning
       /\ Len(app'.accepted) = Len(app.accepted) + 1
       /\ app'.entries[Len(app'.entries)].Level = ERROR
       /\ app'.entries[Len(app'.entries)].Operation = last'.op
    ]_vars

\* the exit command has been processed
ExitHasRun == last.op = <<"exit">>

\* a step that reads a line
ReadStep == steps' = steps + 1

\* C19: once the exit command has run isRunning is false, no further line
\* is read or executed, and the loop terminates; and a line is read only
\* when no command is pending, the pending command being the next thing the
\* loop executes.
C19_ExitEndsLoop ==
    /\ [](ExitHasRun => ~app.isRunning)
    /\ [][ExitHasRun => (~ReadStep /\ app'.input = app.input /\ last' = last /\ fs' = fs)]_vars
    /\ ExitHasRun ~> (app.pc = "ended")
    /\ [][ReadStep => (app.pc = "prompt" /\ last' = last /\ fs' = fs)]_vars
    /\ [][app.pc = "command"
          => (ProcessStep \/ last'.op \notin Commands)
             /\ last'.op = Split(app.input, " ")[1]
             /\ app'.input = app.input /\ steps' = steps]_vars

\* C19 witness: exit was the first of the lines of the input and the second
\* line was never read; the loop has ended.
C19_Witness ==
    /\ ExitHasRun
    /\ app.pc = "ended"
    /\ ~app.isRunning
    /\ steps = 1
    /\ steps < MaxLines
    /\ app.input = <<"exit">>

-----------------------------------------------------------------------------
(* The concurrent specification: two invocations of MoveToTrash that run   *)
(* against the same trash root, one system call at a time.                 *)

\* the trash before the two calls: never used, or holding an entry a left
\* by an earlier rm of docs/a, after which docs/a was created again
EarlierFs(os) ==
    {InitFs,
     WriteFile(MoveToTrash(os, InitFs, Join(Docs, <<"a">>), "none").fs,
               Join(Docs, <<"a">>), Content(Len(InitialFiles) + 1)).fs}

\* the files the two invocations are given
PathPairs ==
    {<<Join(Docs, <<"a">>), Join(Work, <<"a">>)>>,
     <<Join(Docs, <<"a", "_", "1">>), Join(Work, <<"a">>)>>}

\* an invocation of MoveToTrash(path) before its first system call; data
\* is the content the file has then
Invocation(f, path) ==
    [path |-> path, pc |-> "mkdir", fileName |-> Base(path), suffix |-> 1,
     err |-> "none", data |-> f[path].data]

ConcurrentInit ==
    /\ platform \in {"linux", "darwin", "windows"}
    /\ fs \in EarlierFs(platform)
    /\ nextId = 0
    /\ last = Call("start", <<>>, {}, "none", "nil", <<>>)
    /\ steps = 0
    /\ app = AppNew
    /\ \E pair \in PathPairs :
        procs = <<Invocation(fs, pair[1]), Invocation(fs, pair[2])>>

\* os.MkdirAll of the trash root (and of info on the metadata-tracking
\* variant)
RunMkdirAll(i) ==
    LET m1 == MkdirAll(fs, TrashDir(platform))
        m2 == IF platform = "linux" THEN MkdirAll(m1.fs, LinuxInfoDir) ELSE m1
    IN
    /\ procs[i].pc = "mkdir"
    /\ fs' = m2.fs
    /\ procs' = [procs EXCEPT ![i].pc = IF m1.ok /\ m2.ok THEN "stat" ELSE "done",
                              ![i].err = IF m1.ok /\ m2.ok THEN "none" ELSE "mkdir"]
    /\ UNCHANGED <<platform, nextId, last, steps, app>>

\* one round of the probe loop: os.Stat of the candidate; a free name ends
\* the loop, a taken one gives the next suffix
RunStat(i) ==
    /\ procs[i].pc = "stat"
    /\ procs' =
         IF ~Exists(fs, Join(TrashDir(platform), procs[i].fileName))
            THEN [procs EXCEPT ![i].pc = "rename"]
            ELSE [procs EXCEPT ![i].fileName = Suffixed(Base(procs[i].path), procs[i].suffix),
                               ![i].suffix = @ + 1]
    /\ UNCHANGED <<platform, fs, nextId, last, steps, app>>

\* os.Rename(path, dest)
RunRename(i) ==
    LET r == Rename(fs, Resolve(procs[i].path),
                    Join(TrashDir(platform), procs[i].fileName))
    IN
    /\ procs[i].pc = "rename"
    /\ fs' = r.fs
    /\ procs' = [procs EXCEPT ![i].pc = IF r.ok /\ platform = "linux" THEN "write" ELSE "done",
                              ![i].err = IF ~r.ok THEN "rename"
                                         ELSE IF platform = "linux" THEN "none" ELSE "nil"]
    /\ UNCHANGED <<platform, nextId, last, steps, app>>

\* os.WriteFile of the record (metadata-tracking variant)
RunWriteFile(i) ==
    LET w == WriteFile(fs, Join(LinuxInfoDir, procs[i].fileName \o TrashInfoExt),
                       TrashInfo(procs[i].path))
    IN
    /\ procs[i].pc = "write"
    /\ fs' = w.fs
    /\ procs' = [procs EXCEPT ![i].pc = "done",
                              ![i].err = IF w.ok THEN "nil" ELSE "write"]
    /\ UNCHANGED <<platform, nextId, last, steps, app>>

ConcurrentNext ==
    \E i \in DOMAIN procs :
        \/ RunMkdirAll(i)
        \/ RunStat(i)
        \/ RunRename(i)
        \/ RunWriteFile(i)

ConcurrentSpec == ConcurrentInit /\ [][ConcurrentNext]_vars

\* both invocations have returned success
BothReturnedNil ==
    /\ Len(procs) = 2
    /\ \A i \in 1..2 : procs[i].pc = "done" /\ procs[i].err = "nil"

\* C18: two concurrent MoveToTrash calls on two different files with the
\* same base name: after both returned success the two files are in the
\* trash under distinct names, each with its content, in every interleaving
\* of the existence probes and the renames.
C18_ConcurrentMovesKeepBothFiles ==
    (/\ BothReturnedNil
     /\ procs[1].path # procs[2].path
     /\ Base(procs[1].path) = Base(procs[2].path))
    =>
    /\ procs[1].fileName # procs[2].fileName
    /\ \A i \in 1..2 :
         /\ IsFileAt(fs, Join(TrashDir(platform), procs[i].fileName))
         /\ fs[Join(TrashDir(platform), procs[i].fileName)].data = procs[i].data

-----------------------------------------------------------------------------
(* The logger specification: calls of Log, Debug, Info, Warning and Error  *)
(* on a Logger built with any of the four levels.                          *)

MaxLogCalls == 4

Levels == {DEBUG, INFO, WARNING, ERROR}

\* last.arg holds the levels of the calls made so far, in order
LoggerInit ==
    /\ platform = "linux"
    /\ fs = InitFs
    /\ nextId = 0
    /\ last = Call("Log", <<>>, {}, "none", "nil", <<>>)
    /\ steps = 0
    /\ \E level \in Levels : app = [AppNew EXCEPT !.Level = level]
    /\ procs = NoProcs

\* what every call leaves besides the logger
Logged(level) ==
    /\ steps < MaxLogCalls
    /\ last' = [last EXCEPT !.arg = Append(@, level)]
    /\ steps' = steps + 1
    /\ UNCHANGED <<platform, fs, nextId, procs>>

DoLog ==
    \E level \in Levels :
        /\ app' = Log(app, level, <<"TEST">>, "nil")
        /\ Logged(level)

DoDebug ==
    /\ app' = Debug(app, <<"TEST">>, "nil")
    /\ Logged(DEBUG)

DoInfo ==
    /\ app' = Info(app, <<"TEST">>, "nil")
    /\ Logged(INFO)

DoWarning ==
    /\ app' = Warning(app, <<"TEST">>, "nil")
    /\ Logged(WARNING)

DoError ==
    /\ app' = Error(app, <<"TEST">>, "failed")
    /\ Logged(ERROR)

LoggerNext ==
    \/ DoLog
    \/ DoDebug
    \/ DoInfo
    \/ DoWarning
    \/ DoError

LoggerSpec == LoggerInit /\ [][LoggerNext]_vars

\* the levels of the calls made so far that are not below the logger's
\* Level, in the order of the calls
AcceptedLevels == SelectSeq(last.arg, LAMBDA level : level >= app.Level)

\* C20: after any sequence of Log, Debug, Info, Warning and Error calls the
\* logger holds at most MaxEntries entries; they are the most recent of the
\* entries of the calls whose level is not below Level, in the order of the
\* calls; no entry with a level below Level is held.
C20_NewestEntriesKept ==
    LET n == Len(AcceptedLevels)
        k == Len(app.entries)
    IN  /\ k <= MaxEntries
        /\ k = IF n < MaxEntries THEN n ELSE MaxEntries
        /\ \A i \in 1..k :
             /\ app.entries[i].Timestamp = n - k + i
             /\ app.entries[i].Level = AcceptedLevels[n - k + i]
             /\ app.entries[i].Level >= app.Level

\* C20 witness: more calls were accepted than the logger keeps, a call
\* below Level was made, and the logger is full.
C20_Witness ==
    /\ last.op = "Log"
    /\ Len(AcceptedLevels) > MaxEntries
    /\ Len(AcceptedLevels) < Len(last.arg)
    /\ Len(app.entries) = MaxEntries
    /\ app.entries[1].Level # app.entries[MaxEntries].Level

-----------------------------------------------------------------------------
(* The bookmark manager (BookmarkManager.AddBookmark, RemoveBookmark,      *)
(* SaveBookmarks) and the bookmark specification.                          *)

\* filepath.Join(homeDir, ".filemanager")
ConfigDir == Join(Home, <<".", "filemanager">>)

\* filepath.Join(configDir, "bookmarks.json")
BookmarksFile == Join(ConfigDir, <<"bookmarks", ".", "json">>)

Bookmark(name, path) == [Name |-> name, Path |-> path]

\* what a call of the manager leaves: the list, the file system, the error
BookmarkResult(bookmarks, f, err) == [Bookmarks |-> bookmarks, fs |-> f, err |-> err]

\* BookmarkManager.SaveBookmarks: the list is written to the bookmarks file
SaveBookmarks(bookmarks, f, fault) ==
    IF fault = "save" \/ ~WriteFile(f, BookmarksFile, <<"bookmarks", bookmarks>>).ok
        THEN BookmarkResult(bookmarks, f, "save")
        ELSE BookmarkResult(bookmarks,
                            WriteFile(f, BookmarksFile, <<"bookmarks", bookmarks>>).fs, "nil")

\* the loops of AddBookmark, RemoveBookmark and GetBookmarkPath over the
\* list: some bookmark has the name
HasBookmark(bookmarks, name) == \E i \in 1..Len(bookmarks) : bookmarks[i].Name = name

\* mutant of AddBookmark: the name is not checked
AddBookmarkUnchecked(bookmarks, f, name, path, fault) ==
    IF ~Exists(f, Resolve(path)) THEN BookmarkResult(bookmarks, f, "stat")
    ELSE IF ~IsDirAt(f, Resolve(path)) THEN BookmarkResult(bookmarks, f, "notdir")
    ELSE SaveBookmarks(Append(bookmarks, Bookmark(name, path)), f, fault)

\* BookmarkManager.AddBookmark
AddBookmark(bookmarks, f, name, path, fault) ==
    IF ~Exists(f, Resolve(path)) THEN BookmarkResult(bookmarks, f, "stat")
    ELSE IF ~IsDirAt(f, Resolve(path)) THEN BookmarkResult(bookmarks, f, "notdir")
    ELSE IF HasBookmark(bookmarks, name) THEN BookmarkResult(bookmarks, f, "exists")
    ELSE SaveBookmarks(Append(bookmarks, Bookmark(name, path)), f, fault)

\* BookmarkManager.RemoveBookmark
RemoveBookmark(bookmarks, f, name, fault) ==
    IF ~HasBookmark(bookmarks, name) THEN BookmarkResult(bookmarks, f, "notfound")
    ELSE SaveBookmarks(SelectSeq(bookmarks, LAMBDA b : b.Name # name), f, fault)

\* the names and the paths the bookmark command is given: two directories,
\* a file and a path that does not exist
BookmarkNames == {<<"t1">>, <<"t2">>}
BookmarkPaths == {Docs, Work, Join(Docs, <<"a">>), Join(Home, <<"none">>)}

\* the lists NewBookmarkManager starts with: empty, or loaded from the file
LoadedBookmarks == {<<>>, <<Bookmark(<<"t1">>, Docs)>>}

\* the home directory with the configuration directory NewBookmarkManager
\* has created
BookmarkFs ==
    [q \in DOMAIN InitFs \cup {ConfigDir} |-> IF q = ConfigDir THEN DirNode ELSE InitFs[q]]

BookmarkInit ==
    /\ platform = "linux"
    /\ fs = BookmarkFs
    /\ nextId = 0
    /\ last = Call("start", <<>>, {}, "none", "nil", <<>>)
    /\ steps = 0
    /\ \E bookmarks \in LoadedBookmarks : app = [Bookmarks |-> bookmarks] @@ AppNew
    /\ procs = NoProcs

\* what a call of the manager leaves in the state
Managed(op, name, fault, r) ==
    /\ steps < MaxSteps
    /\ app' = [app EXCEPT !.Bookmarks = r.Bookmarks]
    /\ fs' = r.fs
    /\ last' = Call(op, name, {}, fault, r.err, <<>>)
    /\ steps' = steps + 1
    /\ UNCHANGED <<platform, nextId, procs>>

DoAddBookmark ==
    \E name \in BookmarkNames, path \in BookmarkPaths, fault \in {"none", "save"} :
        Managed("AddBookmark", name, fault, AddBookmark(app.Bookmarks, fs, name, path, fault))

DoRemoveBookmark ==
    \E name \in BookmarkNames, fault \in {"none", "save"} :
        Managed("RemoveBookmark", name, fault, RemoveBookmark(app.Bookmarks, fs, name, fault))

BookmarkNext ==
    \/ DoAddBookmark
    \/ DoRemoveBookmark

BookmarkSpec == BookmarkInit /\ [][BookmarkNext]_vars

\* the names of a list are pairwise distinct
DistinctNames(bookmarks) ==
    \A i, j \in 1..Len(bookmarks) : bookmarks[i].Name = bookmarks[j].Name => i = j

\* C21: after any sequence of AddBookmark and RemoveBookmark calls from a
\* list with distinct names the names are pairwise distinct; AddBookmark
\* with a name the list has and RemoveBookmark with a name it does not have
\* return an error and leave the list as it was.
C21_BookmarkNamesDistinct ==
    /\ [](DistinctNames(app.Bookmarks))
    /\ [][(steps' = steps + 1 /\ last'.op = "AddBookmark"
           /\ HasBookmark(app.Bookmarks, last'.arg))
          => (last'.err # "nil" /\ app'.Bookmarks = app.Bookmarks)]_vars
    /\ [][(steps' = steps + 1 /\ last'.op = "RemoveBookmark"
           /\ ~HasBookmark(app.Bookmarks, last'.arg))
          => (last'.err # "nil" /\ app'.Bookmarks = app.Bookmarks)]_vars

\* C21 witness: AddBookmark was called with a directory and a name the list
\* has; it returned the error of the name check and the list holds two
\* bookmarks.
C21_Witness ==
    /\ last.op = "AddBookmark"
    /\ last.err = "exists"
    /\ Len(app.Bookmarks) = 2

-----------------------------------------------------------------------------
(* The navigator (Navigator.ChangeDirectory, GetCurrentDirectory,          *)
(* ListDirectory).  app.wd is the working directory of the process, which  *)
(* os.Chdir sets and os.Getwd reports; app.CurrentDir is the field of the  *)
(* Navigator.                                                              *)

\* the kernel's walk along the segments of a path name from the directory
\* cur: every directory passed exists, "." stays, ".." goes up
RECURSIVE WalkSegs(_, _, _)
WalkSegs(f, cur, segs) ==
    IF segs = <<>> THEN [ok |-> TRUE, at |-> cur]
    ELSE IF ~IsDirAt(f, cur) THEN [ok |-> FALSE, at |-> cur]
    ELSE IF Head(segs) = <<>> \/ Head(segs) = <<".">> THEN WalkSegs(f, cur, Tail(segs))
    ELSE IF Head(segs) = <<".", ".">> THEN WalkSegs(f, Parent(cur), Tail(segs))
    ELSE IF ~Exists(f, Join(cur, Head(segs))) THEN [ok |-> FALSE, at |-> cur]
    ELSE WalkSegs(f, Join(cur, Head(segs)), Tail(segs))

\* the entry a system call finds for a path name when the working
\* directory is wd; the empty name finds nothing
Walk(f, wd, path) ==
    IF path = <<>> THEN [ok |-> FALSE, at |-> wd]
    ELSE WalkSegs(f, IF IsAbs(path) THEN Root ELSE wd, Split(path, Sep))

\* os.Getwd
Getwd(a) == a.wd

\* Navigator.GetCurrentDirectory
NavigatorGetCurrentDirectory(a) == Getwd(a)

NavResult(a, err) == [app |-> a, err |-> err]

\* mutant of ChangeDirectory: os.Chdir is not called
FieldOnly(a, at, targetPath) == [a EXCEPT !.CurrentDir = targetPath]

\* os.Chdir(targetPath) and n.CurrentDir = targetPath
ChdirAndField(a, at, targetPath) == [a EXCEPT !.wd = at, !.CurrentDir = targetPath]

\* Navigator.ChangeDirectory after os.Stat found (or did not find) st
ChangeDirectoryAt(a, f, st, targetPath, fault) ==
    IF ~st.ok THEN NavResult(a, "stat")
    ELSE IF ~IsDirAt(f, st.at) THEN NavResult(a, "notdir")
    ELSE IF fault = "chdir" THEN NavResult(a, "chdir")
    ELSE NavResult(ChdirAndField(a, st.at, targetPath), "nil")

\* Navigator.ChangeDirectory
ChangeDirectory(a, f, targetPath, fault) ==
    ChangeDirectoryAt(a, f, Walk(f, Getwd(a), targetPath), targetPath, fault)

\* the sort of ListDirectory: directories first, then by name
ListingOf(f, dir) ==
    SortNames({n \in ReadDir(f, dir).names : IsDirAt(f, Join(dir, n))})
        \o SortNames({n \in ReadDir(f, dir).names : ~IsDirAt(f, Join(dir, n))})

\* Navigator.ListDirectory after os.ReadDir(n.CurrentDir) found st
ListDirectoryAt(f, st) ==
    IF ~st.ok \/ ~IsDirAt(f, st.at) THEN [err |-> "readdir", names |-> <<>>]
    ELSE [err |-> "nil", names |-> ListingOf(f, st.at)]

\* Navigator.ListDirectory
ListDirectory(a, f) == ListDirectoryAt(f, Walk(f, Getwd(a), a.CurrentDir))

-----------------------------------------------------------------------------
(* The navigation specification: cd and ls on a tree with nested           *)
(* directories.                                                            *)

\* docs/sub, a directory below docs
SubDir == Join(Docs, <<"sub">>)

NavFs == [q \in DOMAIN InitFs \cup {SubDir} |-> IF q = SubDir THEN DirNode ELSE InitFs[q]]

\* the arguments of cd: absolute names (one with a trailing separator),
\* names relative to the current directory, "..", a file and a name that
\* does not exist
Targets ==
    {Docs, Home, SubDir, Work \o <<Sep>>,
     <<"docs">>, <<"sub">>, <<"work">>, <<".", ".">>, <<".", ".", Sep, "docs">>,
     <<"a">>, <<"none">>}

\* NewNavigator: CurrentDir is what os.Getwd returns
NavInit ==
    /\ platform = "linux"
    /\ fs = NavFs
    /\ nextId = 0
    /\ last = Call("start", <<>>, {}, "none", "nil", <<>>)
    /\ steps = 0
    /\ app = [wd |-> ProcessDir, CurrentDir |-> ProcessDir] @@ AppNew
    /\ procs = NoProcs

Navigated(targetPath, fault, r) ==
    /\ steps < MaxSteps
    /\ app' = r.app
    /\ last' = Call("ChangeDirectory", targetPath, {}, fault, r.err, <<>>)
    /\ steps' = steps + 1
    /\ UNCHANGED <<platform, fs, nextId, procs>>

\* cd <path>: App.cmdChangeDir -> Navigator.ChangeDirectory
DoChangeDirectory ==
    \E targetPath \in Targets, fault \in {"none", "chdir"} :
        Navigated(targetPath, fault, ChangeDirectory(app, fs, targetPath, fault))

Listed(r) ==
    /\ steps < MaxSteps
    /\ last' = Call("ListDirectory", <<>>, {}, "none", r.err, r.names)
    /\ steps' = steps + 1
    /\ UNCHANGED <<platform, fs, nextId, app, procs>>

\* ls: App.cmdListDir -> Navigator.ListDirectory
DoListDirectory == Listed(ListDirectory(app, fs))

NavNext ==
    \/ DoChangeDirectory
    \/ DoListDirectory

NavSpec == NavInit /\ [][NavNext]_vars

ChangeStep == steps' = steps + 1 /\ last'.op = "ChangeDirectory"

\* the directory a target names from the directory prev: the target itself
\* (in clean form) when it is absolute, the parent of prev for "..", prev
\* joined with the target otherwise
TargetDirectory(prev, targetPath) ==
    IF targetPath = <<".", ".">> THEN Parent(prev)
    ELSE IF IsAbs(targetPath) THEN Clean(targetPath)
    ELSE Join(prev, targetPath)

\* C22: after a successful ChangeDirectory(p) GetCurrentDirectory returns
\* the absolute path of the target directory: p when p is absolute, the
\* previous current directory joined with p when p is relative, its parent
\* when p is ".."; after a ChangeDirectory that returns an error
\* GetCurrentDirectory returns what it returned before.
C22_ChangeDirectoryTarget ==
    [][ChangeStep
       => IF last'.err = "nil"
            THEN /\ NavigatorGetCurrentDirectory(app')
                        = TargetDirectory(NavigatorGetCurrentDirectory(app), last'.arg)
                 /\ IsAbs(NavigatorGetCurrentDirectory(app'))
                 /\ IsDirAt(fs, NavigatorGetCurrentDirectory(app'))
            ELSE /\ NavigatorGetCurrentDirectory(app') = NavigatorGetCurrentDirectory(app)
                 /\ app' = app
    ]_vars

\* C22 witness: the third cd is cd .., it has succeeded and the current
\* directory is docs (reached from docs/sub).
C22_Witness ==
    /\ steps = 3
    /\ last.op = "ChangeDirectory"
    /\ last.arg = <<".", ".">>
    /\ last.err = "nil"
    /\ NavigatorGetCurrentDirectory(app) = Docs
    /\ app.CurrentDir = <<".", ".">>

\* C30: after every sequence of ChangeDirectory calls Navigator.CurrentDir
\* denotes the working directory of the process, and ListDirectory lists
\* the directory that GetCurrentDirectory reports.
C30_CurrentDirIsWorkingDirectory ==
    /\ Walk(fs, Getwd(app), app.CurrentDir).ok
    /\ Walk(fs, Getwd(app), app.CurrentDir).at = NavigatorGetCurrentDirectory(app)
    /\ ListDirectory(app, fs)
         = [err |-> "nil", names |-> ListingOf(fs, NavigatorGetCurrentDirectory(app))]

-----------------------------------------------------------------------------
(* Further properties of the trash specification.                          *)

EmptyStep == steps' = steps + 1 /\ last'.op = "EmptyTrash"

\* C23: on every platform variant an EmptyTrash that meets an entry it
\* cannot remove returns an error, the unremovable entry is still there,
\* and no entry that follows it in iteration order (by name) has been
\* removed.
C23_StopsAtFirstUnremovable ==
    [][(EmptyStep /\ last'.locked # {})
       => /\ last'.err # "nil"
          /\ \A n \in last'.locked, m \in TrashNames(fs) :
                /\ n \in TrashNames(fs')
                /\ NameLess(n, m) => m \in TrashNames(fs')
    ]_vars

\* the same on the variants that remove the entries one by one
C23_PlainStopsAtFirstUnremovable ==
    [][(EmptyStep /\ last'.locked # {} /\ platform # "linux")
       => /\ last'.err # "nil"
          /\ \A n \in last'.locked, m \in TrashNames(fs) :
                /\ n \in TrashNames(fs')
                /\ NameLess(n, m) => m \in TrashNames(fs')
                /\ NameLess(m, n) => m \notin TrashNames(fs')
    ]_vars

\* a step that is a call of RestoreFromTrash
RestoreCall == steps' = steps + 1 /\ last'.op = "RestoreFromTrash"

\* the record of name n is orphaned: info/<n>.trashinfo exists and the trash
\* has no entry n (what a restore leaves whose record removal failed)
Orphaned(f, n) == Exists(f, InfoPath(n)) /\ ~Exists(f, Join(LinuxTrashDir, n))

\* C24: on the metadata-tracking variant (Linux), once a RestoreFromTrash(N)
\* has renamed the file back and failed to delete info/N.trashinfo, a later
\* RestoreFromTrash(N), with no entry N in the trash, returns an error and
\* leaves the whole file system as it was: the restored file and every
\* other file are neither modified, moved nor deleted.
C24_SecondRestoreFailsCleanly ==
    [][(RestoreCall /\ platform = "linux" /\ Orphaned(fs, last'.arg))
       => /\ last'.err # "nil"
          /\ fs' = fs
    ]_vars

\* a second restore of a.txt has failed on the orphaned record, and the file
\* restored by the first one is at its original path
C24_Witness ==
    /\ platform = "linux"
    /\ steps = 3
    /\ last.op = "RestoreFromTrash"
    /\ last.fault = "none"
    /\ last.err = "rename"
    /\ Orphaned(fs, last.arg)
    /\ TrashNames(fs) = {}
    /\ \A p \in DOMAIN InitFs : Exists(fs, p) /\ fs[p] = InitFs[p]

\* the names N for which info/N.trashinfo exists
RecordNames(f) ==
    {SubSeq(n, 1, Len(n) - Len(TrashInfoExt)) :
        n \in {m \in ReadDir(f, LinuxInfoDir).names : HasSuffix(m, TrashInfoExt)}}

\* every trashed file has a record and every record a trashed file
FilesMatchRecords(f) == ReadDir(f, LinuxTrashDir).names = RecordNames(f)

\* a step that is a successful call of the SoftDeleter
TrashCallSucceeded ==
    /\ steps' = steps + 1
    /\ last'.op \in {"MoveToTrash", "RestoreFromTrash", "EmptyTrash"}
    /\ last'.err = "nil"

MoveFailed == MoveStep /\ last'.err # "nil" /\ Exists(fs, Resolve(last'.arg))

\* C27: a MoveToTrash call that returns an error leaves the source where
\* it was, with its content, and ListTrash shows no new entry: a failed
\* delete never leaves the file moved into the trash.
C27_FailedMoveKeepsSource ==
    [][MoveFailed
       => /\ Exists(fs', Resolve(last'.arg))
          /\ fs'[Resolve(last'.arg)] = fs[Resolve(last'.arg)]
          /\ TrashNames(fs') = TrashNames(fs)
    ]_vars

\* the same for the calls that fail before or in os.Rename
C27_FailedRenameKeepsSource ==
    [][(MoveFailed /\ last'.err # "write")
       => /\ Exists(fs', Resolve(last'.arg))
          /\ fs'[Resolve(last'.arg)] = fs[Resolve(last'.arg)]
          /\ TrashNames(fs') = TrashNames(fs)
    ]_vars

\* the path the record of name n holds, as the system calls resolve it
RecordedPath(f, n) == Resolve(OrigPath(Split(f[InfoPath(n)].data, "\n")))

\* a RestoreFromTrash call for an entry with a record whose original path
\* is taken by a file
RestoreOntoFile ==
    /\ RestoreCall
    /\ platform = "linux"
    /\ IsFileAt(fs, InfoPath(last'.arg))
    /\ Exists(fs, Join(LinuxTrashDir, last'.arg))
    /\ OrigPath(Split(fs[InfoPath(last'.arg)].data, "\n")) # <<>>
    /\ IsFileAt(fs, RecordedPath(fs, last'.arg))

\* C28: RestoreFromTrash never destroys user data at the original path.
\* When a file exists at the recorded path the call fails and changes
\* nothing: the occupying file, the trashed file and its record are as
\* before.
C28_RestoreKeepsOccupant ==
    [][RestoreOntoFile
       => /\ last'.err # "nil"
          /\ fs' = fs
    ]_vars

-----------------------------------------------------------------------------
(* The member-name specification: the archive command on a tree where     *)
(* files of one name lie at the top and in two directories, then extract  *)
(* and lsarchive on what it wrote.                                         *)

\* a.txt in the working directory, in docs and in sub, and sub/c.txt
MemberFs ==
    LET dirs == {Root, Cwd, Join(Cwd, <<"docs">>), Join(Cwd, <<"sub">>)}
        files == {Join(Cwd, ATxt), Join(Cwd, <<"docs", Sep>> \o ATxt),
                  Join(Cwd, <<"sub", Sep>> \o ATxt), Join(Cwd, <<"sub", Sep>> \o CTxt)}
    IN  [q \in dirs \cup files |->
            IF q \in dirs THEN DirNode
            ELSE IF q = Join(Cwd, ATxt) THEN FileNode(<<"A">>)
            ELSE IF q = Join(Cwd, <<"docs", Sep>> \o ATxt) THEN FileNode(<<"B">>)
            ELSE IF q = Join(Cwd, <<"sub", Sep>> \o ATxt) THEN FileNode(<<"C">>)
            ELSE FileNode(<<"D">>)]

\* the sources of an archive command: no source is named twice and none
\* lies below another
MemberSources ==
    {<<ATxt>>, <<<<"docs">>>>, <<<<"sub">>>>,
     <<<<"docs">>, <<"sub">>>>, <<<<"sub">>, <<"docs">>>>,
     <<ATxt, <<"docs">>>>, <<<<"sub">>, ATxt>>,
     <<ATxt, <<"docs">>, <<"sub">>>>}

MemberInit ==
    /\ platform = "linux"
    /\ fs = MemberFs
    /\ nextId = 0
    /\ last = ArchCall("start", <<>>, <<>>, <<>>, "none", "nil", 0, <<>>)
    /\ steps = 0
    /\ app = AppNew
    /\ procs = NoProcs

\* archive <name> <format> <sources...>: Archiver.ArchiveFiles as
\* App.cmdCreateArchive calls it
DoArchiveSources ==
    /\ steps = 0
    /\ \E names \in MemberSources, job \in NamedJobs :
        LET sources == [i \in 1..Len(names) |-> Join(Cwd, names[i])]
            destination == Join(Cwd, job[1])
            r == ArchiveFiles(fs, sources, destination, job[2], "none")
        IN  /\ fs' = r.fs
            /\ last' = ArchCall("ArchiveFiles", sources, destination, job[2],
                                "none", r.err, r.at, <<>>)
    /\ steps' = steps + 1
    /\ UNCHANGED <<platform, nextId, app, procs>>

MemberNext ==
    \/ DoArchiveSources
    \/ DoExtractArchive
    \/ DoListArchive

MemberSpec == MemberInit /\ [][MemberNext]_vars

\* the regular files at or below the sources of a call
SourceFiles(f, sources) ==
    {p \in DOMAIN f : IsFileAt(f, p) /\ \E i \in 1..Len(sources) : UnderOrAt(p, sources[i])}

\* the member names of an archive, as a set
NamesIn(members) == {members[i].name : i \in 1..Len(members)}

\* C25: every file ArchiveFiles contributes is stored under a member name
\* of its own: after a successful call the archive has one member for each
\* regular file at or below the sources, and no two members have the same
\* name (files of one base name from two source directories, or a
\* top-level file and a file of that name in a source directory, stay
\* apart).
C25_MemberNamesDistinct ==
    [][(steps' = steps + 1 /\ last'.op = "ArchiveFiles" /\ last'.err = "nil")
       => LET members == MembersOf(fs', last'.dest) IN
          /\ Len(members) = Cardinality(SourceFiles(fs, last'.sources))
          /\ Cardinality(NamesIn(members)) = Len(members)
    ]_vars

\* the same for one source directory alone, where the names are the paths
\* below the directory
C25_OneDirectoryDistinct ==
    [][(steps' = steps + 1 /\ last'.op = "ArchiveFiles" /\ last'.err = "nil"
            /\ Len(last'.sources) = 1 /\ IsDirAt(fs, last'.sources[1]))
       => LET members == MembersOf(fs', last'.dest) IN
          /\ Len(members) = Cardinality(SourceFiles(fs, last'.sources))
          /\ Cardinality(NamesIn(members)) = Len(members)
    ]_vars

-----------------------------------------------------------------------------
(* The probing specification: MoveToTrash one system call at a time.  A   *)
(* call creates the trash directories, checks the candidate names with    *)
(* os.Stat in its loop and then renames the file and writes the record.   *)
(* With the fault "stat" every os.Stat of the call fails with an error    *)
(* that is not a does-not-exist error (the trash root is not searchable). *)

\* the checks one call may make in this specification
MaxProbes == 5

\* os.Stat of a candidate name in the trash root: the error it returns
StatCandidate(f, trashDir, fileName, fault) ==
    IF fault = "stat" THEN "eacces"
    ELSE IF Exists(f, Join(trashDir, fileName)) THEN "nil"
    ELSE "notexist"

\* os.IsNotExist
IsNotExist(err) == err = "notexist"

\* MoveToTrash after the loop: os.Rename into the trash and, on Linux, the
\* record
RenameAndRecord(os, f, path, fileName) ==
    LET r == Rename(f, Resolve(path), Join(TrashDir(os), fileName)) IN
    IF ~r.ok THEN Result(f, "rename", fileName)
    ELSE IF os # "linux" THEN Result(r.fs, "nil", fileName)
    ELSE
    LET w == WriteFile(r.fs, Join(LinuxInfoDir, fileName \o TrashInfoExt), TrashInfo(path)) IN
    IF ~w.ok THEN Result(r.fs, "write", fileName)
    ELSE Result(w.fs, "nil", fileName)

Probing(pc, fault, path, fileName, suffix) ==
    [pc |-> pc, fault |-> fault, path |-> path, baseName |-> Base(path),
     fileName |-> fileName, suffix |-> suffix] @@ AppNew

ProbeInit ==
    /\ platform \in {"linux", "darwin", "windows"}
    /\ fs = InitFs
    /\ nextId = 0
    /\ last = Call("start", <<>>, {}, "none", "nil", <<>>)
    /\ steps = 0
    /\ app = Probing("idle", "none", <<>>, <<>>, 1)
    /\ procs = NoProcs

\* rm <name>: MoveToTrash up to its loop (os.MkdirAll of the directories,
\* fileName := filepath.Base(path), suffix := 1)
DoEnterMoveToTrash ==
    /\ app.pc = "idle"
    /\ steps < MaxSteps
    /\ \E path \in UserPaths, fault \in {"none", "stat"} :
        LET m1 == MkdirAll(fs, TrashDir(platform))
            m2 == IF platform = "linux" THEN MkdirAll(m1.fs, LinuxInfoDir) ELSE m1
        IN  /\ fs' = m2.fs
            /\ app' = Probing("probe", fault, path, Base(path), 1)
    /\ steps' = steps + 1
    /\ UNCHANGED <<platform, nextId, last, procs>>

\* one iteration of the loop: os.Stat of the candidate; the loop is left
\* only when the error is a does-not-exist error, otherwise the next
\* candidate is baseName_suffix
DoProbe ==
    /\ app.pc = "probe"
    /\ app.suffix <= MaxProbes
    /\ LET err == StatCandidate(fs, TrashDir(platform), app.fileName, app.fault) IN
       app' = IF IsNotExist(err)
                  THEN [app EXCEPT !.pc = "rename"]
                  ELSE [app EXCEPT !.fileName = Suffixed(app.baseName, app.suffix),
                                   !.suffix = app.suffix + 1]
    /\ UNCHANGED <<platform, fs, nextId, last, steps, procs>>

\* the statements after the loop, and the return
DoRenameAndRecord ==
    /\ app.pc = "rename"
    /\ LET r == RenameAndRecord(platform, fs, app.path, app.fileName) IN
        /\ fs' = r.fs
        /\ last' = Call("MoveToTrash", app.path, {}, app.fault, r.err, r.name)
    /\ app' = [app EXCEPT !.pc = "idle"]
    /\ UNCHANGED <<platform, nextId, steps, procs>>

ProbeNext ==
    \/ DoEnterMoveToTrash
    \/ DoProbe
    \/ DoRenameAndRecord

ProbeSpec == ProbeInit /\ [][ProbeNext]_vars

\* the candidates a call has passed over so far
Rejected == app.suffix - 1

\* C29: every call of MoveToTrash terminates.  In finite form: the probing
\* passes over a candidate only when it is an entry of the trash, each
\* entry at most once, so a call never passes over more candidates than
\* the trash has entries before it goes on to os.Rename and returns, also
\* when os.Stat fails with an error other than does-not-exist.
C29_ProbingTerminates ==
    app.pc \in {"probe", "rename"} => Rejected <= Cardinality(TrashNames(fs))

\* the same for the calls whose os.Stat calls do not fail that way
C29_PlainProbingTerminates ==
    (app.pc \in {"probe", "rename"} /\ app.fault = "none")
        => Rejected <= Cardinality(TrashNames(fs))

\* a call whose os.Stat calls fail that way never leaves the loop
C29_StatErrorNeverLeaves ==
    [][(app.pc = "probe" /\ app.fault = "stat") => app'.pc = "probe"]_vars

\* the call made one system call at a time is the call of MoveToTrash: the
\* loop chooses the name of ProbeName and the call returns its result
ProbingIsMoveToTrash ==
    [][(app.pc = "rename" /\ app'.pc = "idle")
       => /\ app.fileName = ProbeName(fs, TrashDir(platform), app.baseName, app.baseName, 1)
          /\ fs' = MoveToTrash(platform, fs, app.path, "none").fs
          /\ last'.err = MoveToTrash(platform, fs, app.path, "none").err
    ]_vars

=============================================================================
